---- MODULE Spec2Model ----
(***************************************************************************)
(* Stock ledger, subscription lifecycle and onboarding tracker of the      *)
(* stock_control_system backend (FastAPI + SQLAlchemy).                    *)
(*                                                                         *)
(* The state is the content of the database tables.  Every request handler *)
(* is one action.  A handler that the properties speak about call by call  *)
(* is first written as a function of the tables it reads and of its form   *)
(* inputs, giving its response and the table it leaves; its action applies *)
(* that function to the state.  `response` holds the status and detail (or *)
(* redirect message) of the last answer.  The verified identity of a       *)
(* request (verify_token, require_superadmin) is taken as given: the       *)
(* acting user is a row of the users table.                                *)
(***************************************************************************)
EXTENDS Integers, Sequences, FiniteSets, TLC

VARIABLES
    business,       \* table business: set of Business rows
    users,          \* table users
    branches,       \* table branches
    staff,          \* table staff
    products,       \* table products
    movements,      \* table stock_movements, in insertion (id, created_at) order
    committed,      \* history: signed quantity committed per (business, branch, product)
    events,         \* table onboarding_events: set of <<business_id, event>>
    orders,         \* table orders: set of Order rows
    push_subscriptions, \* table push_subscriptions
    prompts,        \* history: onboarding_status answers with show_activation_modal
                    \* true, counted per (business, next_action)
    subscriptions,  \* table subscriptions
    now,            \* the clock (datetime.utcnow()), in days
    reqs,           \* assign_stock requests between their balance read and their insert
    response,       \* what the last request answered
    shadow          \* second run: the tables had QuietBusiness's actors made no request

vars == <<business, users, branches, staff, products, movements, committed,
          events, orders, push_subscriptions, prompts, subscriptions, now, reqs, response, shadow>>

tenantTables == <<business, users, branches, staff, products>>
ledgerTables == <<movements, committed>>
onboardingTables == <<events, orders, push_subscriptions, prompts>>
subscriptionTables == <<subscriptions, now>>

----------------------------------------------------------------------------
(* Bounds of the model *)

MaxMovements == 3
MaxTenantMovements == 2
MaxBranches == 4
MaxFormMovements == 2
MaxRecent == 12
MaxProducts == 2
NumReqs == 2
MaxNow == 40

(* A nullable column holding None; `if not branch_id` treats 0 alike. *)
NULL == 0

(* products.price or products.buying_price holding None *)
NoPrice == -1

----------------------------------------------------------------------------
(* The tenants the ledger specifications start from: two businesses, the   *)
(* first with two branches.                                                *)

BusinessIds == {1, 2}
BranchIds == {1, 2, 3}
ProductIds == {1, 2}
StaffIds == {1, 2, 3}

InitBusiness ==
    { [id |-> 1, username |-> "admin1", email |-> "one@example.com"],
      [id |-> 2, username |-> "admin2", email |-> "two@example.com"] }

InitBranches ==
    { [id |-> 1, business_id |-> 1],
      [id |-> 2, business_id |-> 1],
      [id |-> 3, business_id |-> 2] }

InitStaff ==
    { [id |-> 1, business_id |-> 1, branch_id |-> 1],
      [id |-> 2, business_id |-> 1, branch_id |-> 2],
      [id |-> 3, business_id |-> 2, branch_id |-> 3] }

InitProducts ==
    { [id |-> 1, business_id |-> 1, name |-> "soap",
       price |-> 2, buying_price |-> 1, quantity |-> 0],
      [id |-> 2, business_id |-> 2, name |-> "soap",
       price |-> 2, buying_price |-> 1, quantity |-> 0] }

InitUsers ==
    { [id |-> 1, business_id |-> 1, username |-> "admin1", role |-> "admin",       branch_id |-> NULL],
      [id |-> 2, business_id |-> 1, username |-> "mgr1",   role |-> "manager",     branch_id |-> 1],
      [id |-> 3, business_id |-> 1, username |-> "store1", role |-> "storekeeper", branch_id |-> 1],
      [id |-> 4, business_id |-> 2, username |-> "admin2", role |-> "admin",       branch_id |-> NULL] }

(* Form inputs: ids that exist, one that does not, and None. *)
ProductIdInputs == ProductIds \cup {3}
StaffIdInputs == StaffIds \cup {4}
BranchIdInputs == BranchIds \cup {NULL, 4}
QuantityInputs == {0, 1, 2}

Tuples == BusinessIds \X (BranchIdInputs \ {NULL}) \X ProductIds

----------------------------------------------------------------------------
(* Aggregates over the ledger *)

RECURSIVE SumQuantity(_)
SumQuantity(rows) ==
    IF rows = <<>> THEN 0
    ELSE Head(rows).quantity + SumQuantity(Tail(rows))

(* sum(quantity) over the rows of one (business, branch, product) *)
Balance(led, b, br, p) ==
    SumQuantity(SelectSeq(led, LAMBDA m:
        m.business_id = b /\ m.branch_id = br /\ m.product_id = p))

(* product_stock without its branch filter *)
ProductStockAllBranches(led, user, product_id) ==
    SumQuantity(SelectSeq(led, LAMBDA m:
        /\ m.product_id = product_id
        /\ m.business_id = user.business_id))

(* GET /inventory/product_stock/{product_id} *)
ProductStock(led, user, product_id) ==
    SumQuantity(SelectSeq(led, LAMBDA m:
        /\ m.product_id = product_id
        /\ m.business_id = user.business_id
        /\ (user.role # "admin" => m.branch_id = user.branch_id)))

(* the sum of the quantity column of a set of products *)
RECURSIVE SumOverColumn(_)
SumOverColumn(rows) ==
    IF rows = {} THEN 0
    ELSE LET row == CHOOSE r \in rows : TRUE IN row.quantity + SumOverColumn(rows \ {row})

(* the stock read with the products.quantity column added in *)
get_product_stock_cached(user, product_id) ==
    ProductStock(movements, user, product_id)
        + SumOverColumn({ p \in products : p.id = product_id /\ p.business_id = user.business_id })

get_product_stock(user, product_id) == ProductStock(movements, user, product_id)

(* the balance read counting what came in and not what went out *)
current_stock_received(led, user, product_id) ==
    SumQuantity(SelectSeq(led, LAMBDA m:
        /\ m.product_id = product_id
        /\ m.business_id = user.business_id
        /\ m.movement_type = "IN"
        /\ (user.role # "admin" => m.branch_id = user.branch_id)))

(* The balance assign_stock compares the requested quantity with *)
current_stock(led, user, product_id) ==
    SumQuantity(SelectSeq(led, LAMBDA m:
        /\ m.product_id = product_id
        /\ m.business_id = user.business_id
        /\ (user.role # "admin" => m.branch_id = user.branch_id)))


(* 10 most recent movements of one type, newest first (assign_page, restock_page) *)
RecentLimit == 10

Reverse(s) == [i \in 1 .. Len(s) |-> s[Len(s) + 1 - i]]

(* the list taking the oldest rows first *)
OldestIds(led, user, type) ==
    LET ids == SelectSeq([i \in 1 .. Len(led) |-> i], LAMBDA i:
                    /\ led[i].business_id = user.business_id
                    /\ led[i].movement_type = type
                    /\ (user.role # "admin" => led[i].branch_id = user.branch_id))
    IN SubSeq(ids, 1, IF Len(ids) < RecentLimit THEN Len(ids) ELSE RecentLimit)

(* The recent-activity query: the rows of the type in the user's scope,    *)
(* order_by(created_at.desc()).limit(10), as positions in the ledger.  A   *)
(* row's position is its id; rows are created in the order of their ids.   *)
RecentIds(led, user, type) ==
    LET ids == SelectSeq([i \in 1 .. Len(led) |-> i], LAMBDA i:
                    /\ led[i].business_id = user.business_id
                    /\ led[i].movement_type = type
                    /\ (user.role # "admin" => led[i].branch_id = user.branch_id))
        ordered == Reverse(ids)
    IN SubSeq(ordered, 1, IF Len(ordered) < RecentLimit THEN Len(ordered) ELSE RecentLimit)

RecentMovements(led, user, type) ==
    LET ids == RecentIds(led, user, type) IN [k \in 1 .. Len(ids) |-> led[ids[k]]]

(* GET /inventory/assign: the movements the page lists *)
AssignPage(led, user) ==
    IF user.role \notin {"admin", "storekeeper"} THEN <<"Not authorized">>
    ELSE RecentMovements(led, user, "ISSUE")

assign_page(user) == AssignPage(movements, user)

(* GET /inventory/restock: the movements the page lists *)
RestockPage(led, user) ==
    IF user.role \notin {"admin", "manager"} THEN <<"Not authorized">>
    ELSE RecentMovements(led, user, "IN")

restock_page(user) == RestockPage(movements, user)

(* the two pages as requests: the answer carries the list, nothing is written *)
get_assign_page(user) ==
    /\ response' = [status |-> IF user.role \in {"admin", "storekeeper"} THEN 200 ELSE 403,
                    detail |-> "assign_page",
                    movements |-> assign_page(user)]
    /\ UNCHANGED <<tenantTables, ledgerTables, onboardingTables, subscriptionTables, reqs>>

get_restock_page(user) ==
    /\ response' = [status |-> IF user.role \in {"admin", "manager"} THEN 200 ELSE 403,
                    detail |-> "restock_page",
                    movements |-> restock_page(user)]
    /\ UNCHANGED <<tenantTables, ledgerTables, onboardingTables, subscriptionTables, reqs>>

(* GET /inventory/dashboard: stock per product of the business *)
StockData(led, user) ==
    IF user.role \notin {"admin", "manager"} THEN <<"Not authorized">>
    ELSE [p \in { x.id : x \in { y \in products : y.business_id = user.business_id } } |->
            SumQuantity(SelectSeq(led, LAMBDA m:
                /\ m.product_id = p
                /\ m.business_id = user.business_id
                /\ (user.role # "admin" => m.branch_id = user.branch_id)))]

inventory_overview(user) == StockData(movements, user)

(* GET /inventory/products: for every product of the business, the stock   *)
(* in every branch of the business and their total; the rows are filtered  *)
(* by business only                                                        *)
ProductData(led, brs, user) ==
    IF user.role \notin {"admin", "manager"} THEN <<"Not authorized">>
    ELSE LET own == { b.id : b \in { x \in brs : x.business_id = user.business_id } } IN
         [p \in { x.id : x \in { y \in products : y.business_id = user.business_id } } |->
            [branches |-> [br \in own |-> Balance(led, user.business_id, br, p)],
             total |-> SumQuantity(SelectSeq(led, LAMBDA m:
                           /\ m.product_id = p
                           /\ m.business_id = user.business_id
                           /\ m.branch_id \in own))]]

products_page(user) == ProductData(movements, branches, user)

----------------------------------------------------------------------------
(* Ledger writes.  A handler is a function of the tables it reads and its  *)
(* form inputs: it gives the response and the ledger it leaves.            *)

Resp(status, detail) == [status |-> status, detail |-> detail]

(* raise HTTPException: nothing is written *)
Refused(led, status, detail) ==
    [response |-> Resp(status, detail), movements |-> led]

(* an existing row of the same kind is updated in place of an insert *)
InsertedOrMerged(led, row, message) ==
    [response |-> Resp(303, message),
     movements |->
        IF led # <<>> /\ [led[Len(led)] EXCEPT !.quantity = 0] = [row EXCEPT !.quantity = 0]
        THEN [led EXCEPT ![Len(led)].quantity = @ + row.quantity]
        ELSE Append(led, row)]

(* db.add(movement); db.commit(), answered with a redirect *)
Inserted(led, row, message) ==
    [response |-> Resp(303, message), movements |-> Append(led, row)]

(* the staff lookup without its branch filter *)
AssignStaffAnyBranch(user, staff_id) ==
    { s \in staff : s.id = staff_id /\ s.business_id = user.business_id }

(* assign_stock's staff and product lookups *)
AssignStaff(user, staff_id) ==
    { s \in staff :
        /\ s.id = staff_id
        /\ s.business_id = user.business_id
        /\ (user.role # "admin" => s.branch_id = user.branch_id) }

AssignProduct(user, product_id) ==
    { p \in products : p.id = product_id /\ p.business_id = user.business_id }

(* the quantity check refusing only negative quantities *)
AssignRefusalNegativeOnly(user, product_id, staff_id, quantity) ==
    IF user.role \notin {"admin", "storekeeper"} THEN Resp(403, "Not authorized")
    ELSE IF quantity < 0 THEN Resp(400, "Quantity must be greater than zero")
    ELSE IF AssignStaff(user, staff_id) = {} THEN Resp(400, "Invalid staff")
    ELSE IF AssignProduct(user, product_id) = {} THEN Resp(400, "Invalid product")
    ELSE Resp(200, "valid")

(* the checks without the role check *)
AssignRefusalAnyRole(user, product_id, staff_id, quantity) ==
    IF quantity <= 0 THEN Resp(400, "Quantity must be greater than zero")
    ELSE IF AssignStaff(user, staff_id) = {} THEN Resp(400, "Invalid staff")
    ELSE IF AssignProduct(user, product_id) = {} THEN Resp(400, "Invalid product")
    ELSE Resp(200, "valid")

(* assign_stock up to its balance read: the role, quantity, staff and product checks *)
AssignRefusal(user, product_id, staff_id, quantity) ==
    IF user.role \notin {"admin", "storekeeper"} THEN Resp(403, "Not authorized")
    ELSE IF quantity <= 0 THEN Resp(400, "Quantity must be greater than zero")
    ELSE IF AssignStaff(user, staff_id) = {} THEN Resp(400, "Invalid staff")
    ELSE IF AssignProduct(user, product_id) = {} THEN Resp(400, "Invalid product")
    ELSE Resp(200, "valid")

(* the issue written with the quantity as entered *)
IssueRowUnsigned(user, product_id, staff_id, quantity, staff_branch_id) ==
    [business_id |-> user.business_id,
     branch_id |-> staff_branch_id,
     product_id |-> product_id,
     movement_type |-> "ISSUE",
     quantity |-> quantity,
     staff_id |-> staff_id,
     created_by |-> user.id]

IssueRow(user, product_id, staff_id, quantity, staff_branch_id) ==
    [business_id |-> user.business_id,
     branch_id |-> staff_branch_id,
     product_id |-> product_id,
     movement_type |-> "ISSUE",
     quantity |-> -quantity,
     staff_id |-> staff_id,
     created_by |-> user.id]

StaffBranch(user, staff_id) == (CHOOSE s \in AssignStaff(user, staff_id) : TRUE).branch_id

(* assign_stock refusing a quantity equal to the stock as well *)
assign_stock_result_strict(led, user, product_id, staff_id, quantity) ==
    LET refusal == AssignRefusal(user, product_id, staff_id, quantity) IN
    IF refusal.detail # "valid" THEN Refused(led, refusal.status, refusal.detail)
    ELSE IF current_stock(led, user, product_id) <= quantity
         THEN Refused(led, 400, "Not enough stock")
    ELSE Inserted(led,
                  IssueRow(user, product_id, staff_id, quantity, StaffBranch(user, staff_id)),
                  "Stock assigned successfully")

(* POST /inventory/assign_stock, the request running alone *)
assign_stock_result(led, user, product_id, staff_id, quantity) ==
    LET refusal == AssignRefusal(user, product_id, staff_id, quantity) IN
    IF refusal.detail # "valid" THEN Refused(led, refusal.status, refusal.detail)
    ELSE IF current_stock(led, user, product_id) < quantity
         THEN Refused(led, 400, "Not enough stock")
    ELSE Inserted(led,
                  IssueRow(user, product_id, staff_id, quantity, StaffBranch(user, staff_id)),
                  "Stock assigned successfully")

(* the supplied branch taken for every role *)
RestockBranchSupplied(user, branch_id) == branch_id

(* restock's target branch *)
RestockBranch(user, branch_id) ==
    IF user.role = "manager" THEN user.branch_id ELSE branch_id

(* POST /inventory/restock *)
restock_result(led, brs, user, product_id, quantity, branch_id) ==
    LET product_rows == { p \in products :
            p.id = product_id /\ p.business_id = user.business_id }
        branch_id_to_use == RestockBranch(user, branch_id)
    IN
    IF user.role \notin {"admin", "manager"} THEN Refused(led, 403, "Not authorized")
    ELSE IF quantity <= 0 THEN Refused(led, 400, "Quantity must be greater than zero")
    ELSE IF product_rows = {} THEN Refused(led, 400, "Invalid product")
    ELSE IF user.role # "manager" /\ branch_id = NULL
         THEN Refused(led, 400, "Branch is required")
    \* stock_movements.branch_id is a foreign key to branches.id: the commit of
    \* a row naming no branch raises IntegrityError and writes nothing
    ELSE IF \A b \in brs : b.id # branch_id_to_use
         THEN Refused(led, 500, "Internal Server Error")
    ELSE Inserted(led,
                  [business_id |-> user.business_id,
                   branch_id |-> branch_id_to_use,
                   product_id |-> product_id,
                   movement_type |-> "IN",
                   quantity |-> quantity,
                   staff_id |-> NULL,
                   created_by |-> user.id],
                  "Stock added successfully")

(* History of the requests that succeeded: a restock of q units counts +q, *)
(* an issue of q units -q, for the (business, branch, product) it names.   *)
Commits(succeeded, business_id, branch_id, product_id, units) ==
    committed' = IF succeeded
                 THEN [committed EXCEPT ![<<business_id, branch_id, product_id>>] = @ + units]
                 ELSE committed

assign_stock(user, product_id, staff_id, quantity) ==
    LET result == assign_stock_result(movements, user, product_id, staff_id, quantity) IN
    /\ movements' = result.movements
    /\ response' = result.response
    /\ IF result.response.status = 303
       THEN Commits(TRUE, user.business_id, StaffBranch(user, staff_id), product_id, -quantity)
       ELSE Commits(FALSE, NULL, NULL, NULL, 0)
    /\ UNCHANGED <<tenantTables, onboardingTables, subscriptionTables, reqs>>

restock_product(user, product_id, quantity, branch_id) ==
    LET result == restock_result(movements, branches, user, product_id, quantity, branch_id) IN
    /\ movements' = result.movements
    /\ response' = result.response
    /\ Commits(result.response.status = 303, user.business_id,
               RestockBranch(user, branch_id), product_id, quantity)
    /\ UNCHANGED <<tenantTables, onboardingTables, subscriptionTables, reqs>>

(* POST /inventory/create_branch; ids are handed out by AUTO_INCREMENT *)
create_branch_result(brs, user) ==
    IF user.role # "admin"
    THEN [response |-> Resp(403, "Access denied"), branches |-> brs]
    ELSE [response |-> Resp(303, "Branch created successfully"),
          branches |-> brs \cup {[id |-> Cardinality(brs) + 1,
                                  business_id |-> user.business_id]}]

create_branch(user) ==
    LET result == create_branch_result(branches, user) IN
    /\ branches' = result.branches
    /\ response' = result.response
    /\ UNCHANGED <<business, users, staff, products, ledgerTables, onboardingTables,
                   subscriptionTables, reqs>>

(* POST /inventory/create_product; uq_product_name_business admits one row *)
(* per (name, business_id), and the commit of a second one raises          *)
(* IntegrityError, which the handler does not catch                        *)
create_product_result(prods, user, name) ==
    IF user.role \notin {"admin", "manager"}
    THEN [response |-> Resp(403, "Access denied"), products |-> prods]
    ELSE IF \E p \in prods : p.name = name /\ p.business_id = user.business_id
    THEN [response |-> Resp(500, "Internal Server Error"), products |-> prods]
    ELSE [response |-> Resp(303, "Product created successfully"),
          products |-> prods \cup {[id |-> Cardinality(prods) + 1,
                                    business_id |-> user.business_id,
                                    name |-> name,
                                    price |-> NoPrice, buying_price |-> 0,
                                    quantity |-> 0]}]

create_product(user, name) ==
    LET result == create_product_result(products, user, name) IN
    /\ products' = result.products
    /\ response' = result.response
    /\ UNCHANGED <<business, users, branches, staff, ledgerTables, onboardingTables,
                   subscriptionTables, reqs>>

----------------------------------------------------------------------------
(* assign_stock under concurrent requests: each request reads the balance   *)
(* (the SELECT of lines 347-359) and later inserts (lines 361-376); the     *)
(* requests' sessions hold no lock between the two.                         *)

IdleReq ==
    [pc |-> "idle", user_id |-> NULL, product_id |-> NULL, staff_id |-> NULL,
     branch_id |-> NULL, quantity |-> 0, current_stock |-> 0, read_at |-> 0,
     ok |-> FALSE]

assign_stock_read(r, user, product_id, staff_id, quantity) ==
    LET refusal == AssignRefusal(user, product_id, staff_id, quantity) IN
    /\ reqs[r].pc = "idle"
    /\ IF refusal.detail # "valid"
       THEN /\ response' = refusal
            /\ UNCHANGED reqs
       ELSE /\ reqs' = [reqs EXCEPT ![r] =
                    [pc |-> "read", user_id |-> user.id, product_id |-> product_id,
                     staff_id |-> staff_id, branch_id |-> StaffBranch(user, staff_id),
                     quantity |-> quantity,
                     current_stock |-> current_stock(movements, user, product_id),
                     read_at |-> Len(movements),
                     ok |-> FALSE]]
            /\ UNCHANGED response
    /\ UNCHANGED <<tenantTables, ledgerTables, onboardingTables, subscriptionTables>>

assign_stock_write(r) ==
    LET q == reqs[r]
        user == CHOOSE u \in users : u.id = q.user_id
        result ==
            IF q.current_stock < q.quantity
            THEN Refused(movements, 400, "Not enough stock")
            ELSE Inserted(movements,
                          IssueRow(user, q.product_id, q.staff_id, q.quantity, q.branch_id),
                          "Stock assigned successfully")
    IN
    /\ q.pc = "read"
    /\ movements' = result.movements
    /\ response' = result.response
    /\ Commits(result.response.status = 303, user.business_id, q.branch_id,
               q.product_id, -q.quantity)
    /\ reqs' = [reqs EXCEPT ![r].pc = "done", ![r].ok = (result.response.status = 303)]
    /\ UNCHANGED <<tenantTables, onboardingTables, subscriptionTables>>

----------------------------------------------------------------------------
(* Onboarding tracker *)

(* db.add(obj); db.commit(): uq_onboarding_event admits one row per         *)
(* (business_id, event), and the commit of a second one raises             *)
CommitEvent(evts, business_id, event) ==
    IF <<business_id, event>> \in evts
    THEN [raised |-> "IntegrityError", events |-> evts]
    ELSE [raised |-> "none", events |-> evts \cup {<<business_id, event>>}]

(* the insert with no except clause around it *)
RecordOrRaise(evts, business_id, event) ==
    CommitEvent(evts, business_id, event)

(* record_onboarding_event: what the call raises to its caller and the     *)
(* table it leaves; an IntegrityError is rolled back and ignored           *)
RecordEvent(evts, business_id, event) ==
    LET commit == CommitEvent(evts, business_id, event) IN
    IF commit.raised = "IntegrityError"
    THEN [raised |-> "none", events |-> evts]
    ELSE commit

record_onboarding_event(evts, business_id, event) ==
    RecordEvent(evts, business_id, event).events

(* the steps without view_report's fallback on a sale *)
StepsWithoutFallback(evts, business_id) ==
    [add_product |-> \E p \in products : p.business_id = business_id,
     sell_product |-> \E o \in orders : o.business_id = business_id,
     view_report |-> <<business_id, "view_report">> \in evts,
     install_app |-> <<business_id, "install_app">> \in evts]

Steps(evts, business_id) ==
    LET has_product == \E p \in products : p.business_id = business_id
        has_sale == \E o \in orders : o.business_id = business_id
        viewed_report == <<business_id, "view_report">> \in evts
        installed_app == <<business_id, "install_app">> \in evts
    IN [add_product |-> has_product,
        sell_product |-> has_sale,
        view_report |-> viewed_report \/ has_sale,
        install_app |-> installed_app]

StepNames == <<"add_product", "sell_product", "view_report", "install_app">>

StageNames == { StepNames[i] : i \in 1 .. 4 }

Progress(steps) ==
    (Cardinality({ i \in 1 .. 4 : steps[StepNames[i]] }) * 100) \div 4

(* the order of the stages ending at view_report *)
next_action_before_install(steps) ==
    IF ~steps.add_product THEN "add_product"
    ELSE IF ~steps.sell_product THEN "sell_product"
    ELSE IF ~steps.view_report THEN "view_report"
    ELSE "None"

next_action_from_steps(steps) ==
    IF ~steps.add_product THEN "add_product"
    ELSE IF ~steps.sell_product THEN "sell_product"
    ELSE IF ~steps.view_report THEN "view_report"
    ELSE IF ~steps.install_app THEN "install_app"
    ELSE "None"

(* one sentinel for every stage *)
StageEventUnstaged(next_action) == "activation_modal_shown"

StageEvent(next_action) == "activation_modal_shown:" \o next_action

(* GET /onboarding/status: the answer and the events table it leaves *)
onboarding_status_result(evts, user) ==
    IF user.business_id = NULL
    THEN [response |-> Resp(400, "No business_id in token"), events |-> evts]
    ELSE LET steps == Steps(evts, user.business_id)
             progress == Progress(steps)
             next_action == next_action_from_steps(steps)
             show == /\ next_action # "None"
                     /\ progress < 100
                     /\ <<user.business_id, StageEvent(next_action)>> \notin evts
         IN [response |->
                [status |-> 200, detail |-> "onboarding_status", steps |-> steps,
                 progress |-> progress, show_activation_modal |-> show,
                 next_action |-> next_action],
             events |->
                IF show
                THEN record_onboarding_event(evts, user.business_id, StageEvent(next_action))
                ELSE evts]

(* History of the prompts: one more for (business, next_action) when the   *)
(* answer carries show_activation_modal = true                             *)
Prompts(answer, business_id) ==
    prompts' = IF answer.status = 200 /\ answer.show_activation_modal
               THEN [prompts EXCEPT ![<<business_id, answer.next_action>>] = @ + 1]
               ELSE prompts

onboarding_status(user) ==
    LET result == onboarding_status_result(events, user) IN
    /\ response' = result.response
    /\ events' = result.events
    /\ Prompts(result.response, user.business_id)
    /\ UNCHANGED <<tenantTables, ledgerTables, orders, push_subscriptions, subscriptionTables, reqs>>

(* POST /onboarding/mark_installed *)
mark_installed_result(evts, user) ==
    IF user.business_id = NULL
    THEN [response |-> Resp(400, "No business_id in token"), events |-> evts]
    ELSE [response |-> Resp(200, "Install recorded"),
          events |-> record_onboarding_event(evts, user.business_id, "install_app")]

mark_installed(user) ==
    LET result == mark_installed_result(events, user) IN
    /\ response' = result.response
    /\ events' = result.events
    /\ UNCHANGED <<tenantTables, ledgerTables, orders, push_subscriptions, prompts, subscriptionTables, reqs>>

(* onboarding_status under concurrent requests: a request looks the stage's *)
(* sentinel up (lines 51-110) and later records it and answers (lines      *)
(* 112-121); other requests run between the two.                           *)

IdleStatusReq ==
    [pc |-> "idle", business_id |-> NULL, answer |-> Resp(200, "none")]

onboarding_status_read(r, user) ==
    LET result == onboarding_status_result(events, user) IN
    /\ reqs[r].pc = "idle"
    /\ IF result.response.status # 200
       THEN /\ response' = result.response
            /\ UNCHANGED reqs
       ELSE /\ reqs' = [reqs EXCEPT ![r] =
                    [pc |-> "looked", business_id |-> user.business_id,
                     answer |-> result.response]]
            /\ UNCHANGED response
    /\ UNCHANGED <<tenantTables, ledgerTables, onboardingTables, subscriptionTables>>

onboarding_status_write(r) ==
    LET q == reqs[r] IN
    /\ q.pc = "looked"
    /\ events' = IF q.answer.show_activation_modal
                 THEN record_onboarding_event(events, q.business_id,
                                              StageEvent(q.answer.next_action))
                 ELSE events
    /\ response' = q.answer
    /\ Prompts(q.answer, q.business_id)
    /\ reqs' = [reqs EXCEPT ![r].pc = "done"]
    /\ UNCHANGED <<tenantTables, ledgerTables, orders, push_subscriptions, subscriptionTables>>

----------------------------------------------------------------------------
(* The product router (routers/product.py) *)

(* Product.validate_price, run when price is assigned: the error it raises *)
(* for the value, given the buying_price the row holds at that moment.     *)
(* None < float raises TypeError.                                          *)
validate_price(buying_price, value) ==
    IF buying_price = NoPrice THEN "none"
    ELSE IF value = NoPrice THEN "TypeError"
    ELSE IF value < buying_price THEN "ValueError"
    ELSE "none"

(* POST /products/add_product.  models.Product(...) assigns its keyword    *)
(* arguments in the order written: price is validated while buying_price   *)
(* is still unset, buying_price is assigned afterwards without validation. *)
(* Every exception of the try block is answered 400.                       *)
add_product_result(prods, evts, user, name, price, buying_price, quantity, from_onboarding) ==
    LET refused == [products |-> prods, events |-> evts]
        new_product == [id |-> Cardinality(prods) + 1,
                        business_id |-> user.business_id,
                        name |-> name,
                        price |-> price, buying_price |-> buying_price,
                        quantity |-> quantity]
    IN
    IF user.role \notin {"admin", "manager"}
    THEN [response |-> Resp(403, "Access denied")] @@ refused
    ELSE IF validate_price(NoPrice, price) # "none"
    THEN [response |-> Resp(400, "Selling price cannot be below buying price")] @@ refused
    ELSE IF \E p \in prods : p.name = name /\ p.business_id = user.business_id
    THEN [response |-> Resp(400, "IntegrityError")] @@ refused
    ELSE [response |-> IF from_onboarding
                       THEN Resp(303, "/sales/recordsale?source=onboarding")
                       ELSE Resp(200, "Product added successfully"),
          products |-> prods \cup {new_product},
          events |-> record_onboarding_event(evts, user.business_id, "add_product")]

add_product(user, name, price, buying_price, quantity, from_onboarding) ==
    LET result == add_product_result(products, events, user, name, price, buying_price,
                                     quantity, from_onboarding)
    IN
    /\ products' = result.products
    /\ events' = result.events
    /\ response' = result.response
    /\ UNCHANGED <<business, users, branches, staff, ledgerTables, orders, push_subscriptions, prompts,
                   subscriptionTables, reqs>>

(* dict.get(key, default) *)
Get(data, key, default) == IF key \in DOMAIN data THEN data[key] ELSE default

(* PUT /products/update_stock/{product_id}: quantity, then price (validated *)
(* against the buying_price stored before the call), then buying_price are  *)
(* assigned and committed; an error of the validator is not caught and      *)
(* nothing is committed.                                                    *)
update_stock_result(prods, user, product_id, data) ==
    LET found == { p \in prods : p.id = product_id /\ p.business_id = user.business_id } IN
    IF user.role \notin {"admin", "manager"}
    THEN [response |-> Resp(403, "Access denied"), products |-> prods]
    ELSE IF found = {}
    THEN [response |-> Resp(404, "Product not found"), products |-> prods]
    ELSE LET product == CHOOSE p \in found : TRUE
             price == Get(data, "price", product.price)
         IN
         IF validate_price(product.buying_price, price) # "none"
         THEN [response |-> Resp(500, "Internal Server Error"), products |-> prods]
         ELSE [response |-> Resp(200, "Product updated successfully"),
               products |-> (prods \ {product}) \cup
                   {[product EXCEPT !.quantity = Get(data, "quantity", product.quantity),
                                    !.price = price,
                                    !.buying_price =
                                        Get(data, "buying_price", product.buying_price)]}]

update_stock(user, product_id, data) ==
    LET result == update_stock_result(products, user, product_id, data) IN
    /\ products' = result.products
    /\ response' = result.response
    /\ UNCHANGED <<business, users, branches, staff, ledgerTables, onboardingTables,
                   subscriptionTables, reqs>>

----------------------------------------------------------------------------
(* Subscription lifecycle *)

TrialDays == 7
PeriodDays == 30

SubscriptionOf(subs, business_id) == { s \in subs : s.business_id = business_id }

Updated(subs, old, new) == (subs \ {old}) \cup {new}

(* the expiry leaving the flag set *)
ExpiredStillFlagged(subscription) ==
    [subscription EXCEPT !.status = "expired"]

(* an expiry that also ends the period at the clock *)
ExpiredAndClosed(subscription) ==
    [subscription EXCEPT !.status = "expired", !.is_active = FALSE, !.end_date = now]

Expired(subscription) ==
    [subscription EXCEPT !.status = "expired", !.is_active = FALSE]

(* a subscription created with a paid period's length *)
MonthSubscription(business_id, t) ==
    [business_id |-> business_id, status |-> "trial", is_active |-> TRUE,
     start_date |-> t, end_date |-> t + PeriodDays]

(* the row register_business adds to subscriptions *)
TrialSubscription(business_id, t) ==
    [business_id |-> business_id, status |-> "trial", is_active |-> TRUE,
     start_date |-> t, end_date |-> t + TrialDays]

BusinessRow(id, username, email) == [id |-> id, username |-> username, email |-> email]

AdminRow(id, business_id, username) ==
    [id |-> id, business_id |-> business_id, username |-> username,
     role |-> "admin", branch_id |-> NULL]

(* POST /auth/register_form at time t, the request running alone: the      *)
(* answer and the three tables it leaves; ids are handed out by            *)
(* AUTO_INCREMENT                                                          *)
register_result(bus, usrs, subs, t, username, email) ==
    LET id == Cardinality(bus) + 1
        user_id == Cardinality(usrs) + 1
        unchanged == [business |-> bus, users |-> usrs, subscriptions |-> subs]
    IN
    IF \E b \in bus : b.email = email
    THEN [response |-> Resp(400, "Email already registered")] @@ unchanged
    ELSE IF \E u \in usrs : u.username = username
    THEN [response |-> Resp(400, "Username already taken")] @@ unchanged
    ELSE [response |-> Resp(200, "Account created successfully"),
          business |-> bus \cup {BusinessRow(id, username, email)},
          users |-> usrs \cup {AdminRow(user_id, id, username)},
          subscriptions |-> subs \cup {TrialSubscription(id, t)}]

register_business(username, email) ==
    LET result == register_result(business, users, subscriptions, now, username, email) IN
    /\ business' = result.business
    /\ users' = result.users
    /\ subscriptions' = result.subscriptions
    /\ response' = result.response
    /\ UNCHANGED <<branches, staff, products, ledgerTables, onboardingTables, now, reqs>>

(* register_business commit by commit.  Other requests see the tables      *)
(* between its commits: the business (lines 157-162), then the admin user  *)
(* (173-174), then the subscription (188-189).  A commit that a unique     *)
(* constraint refuses raises into the except clause, which rolls back the  *)
(* open transaction only and answers 400; what was committed stays.        *)
IdleRegistration == [pc |-> "idle", username |-> "", email |-> "", business_id |-> NULL]

register_business_commit(r, username, email) ==
    LET id == Cardinality(business) + 1 IN
    /\ reqs[r].pc = "idle"
    /\ IF \E b \in business : b.email = email
       THEN /\ response' = Resp(400, "Email already registered")
            /\ reqs' = [reqs EXCEPT ![r].pc = "done"]
            /\ UNCHANGED business
       ELSE IF \E u \in users : u.username = username
       THEN /\ response' = Resp(400, "Username already taken")
            /\ reqs' = [reqs EXCEPT ![r].pc = "done"]
            /\ UNCHANGED business
       ELSE /\ business' = business \cup {BusinessRow(id, username, email)}
            /\ reqs' = [reqs EXCEPT ![r] = [pc |-> "business", username |-> username,
                                            email |-> email, business_id |-> id]]
            /\ UNCHANGED response
    /\ UNCHANGED <<users, branches, staff, products, ledgerTables, onboardingTables,
                   subscriptionTables>>

register_user_commit(r) ==
    LET q == reqs[r] IN
    /\ q.pc = "business"
    /\ IF \E u \in users : u.username = q.username
       THEN /\ response' = Resp(400, "IntegrityError")
            /\ reqs' = [reqs EXCEPT ![r].pc = "done"]
            /\ UNCHANGED users
       ELSE /\ users' = users \cup
                    {AdminRow(Cardinality(users) + 1, q.business_id, q.username)}
            /\ reqs' = [reqs EXCEPT ![r].pc = "user"]
            /\ UNCHANGED response
    /\ UNCHANGED <<business, branches, staff, products, ledgerTables, onboardingTables,
                   subscriptionTables>>

register_subscription_commit(r) ==
    LET q == reqs[r] IN
    /\ q.pc = "user"
    /\ subscriptions' = subscriptions \cup {TrialSubscription(q.business_id, now)}
    /\ response' = Resp(200, "Account created successfully")
    /\ reqs' = [reqs EXCEPT ![r].pc = "done"]
    /\ UNCHANGED <<tenantTables, ledgerTables, onboardingTables, now>>

(* the expiry raised before its commit: the except clause's rollback undoes the flip *)
ExpireAndDenyUncommitted(subs, subscription, detail) ==
    [response |-> Resp(400, detail), subscriptions |-> subs]

(* The expiry branch of login_user: the flip is committed before the 403 is *)
(* raised; the handler's except clause then rolls back an empty transaction *)
(* and answers 400 with the 403's text.                                     *)
ExpireAndDeny(subs, subscription, detail) ==
    [response |-> Resp(400, detail),
     subscriptions |-> Updated(subs, subscription, Expired(subscription))]

(* the expiry checks made before the suspension check *)
SubscriptionGateExpiryFirst(subs, t, subscription) ==
    IF subscription.status = "trial" /\ subscription.end_date < t
    THEN ExpireAndDeny(subs, subscription, "Your trial has expired.")
    ELSE IF subscription.status = "active" /\ subscription.end_date < t
    THEN ExpireAndDeny(subs, subscription, "Your subscription has expired.")
    ELSE IF subscription.end_date < t
    THEN ExpireAndDeny(subs, subscription, "Your subscription has expired.")
    ELSE IF subscription.status = "suspended"
    THEN [response |-> Resp(400, "Your account is suspended."), subscriptions |-> subs]
    ELSE [response |-> Resp(302, "/inventory/dashboard"), subscriptions |-> subs]

(* The subscription checks of login_user at time t, in the code's order,    *)
(* and the login that follows them                                          *)
SubscriptionGate(subs, t, subscription) ==
    IF subscription.status = "suspended"
    THEN [response |-> Resp(400, "Your account is suspended."), subscriptions |-> subs]
    ELSE IF subscription.status = "trial" /\ subscription.end_date < t
    THEN ExpireAndDeny(subs, subscription, "Your trial has expired.")
    ELSE IF subscription.status = "active" /\ subscription.end_date < t
    THEN ExpireAndDeny(subs, subscription, "Your subscription has expired.")
    ELSE [response |-> Resp(302, "/inventory/dashboard"), subscriptions |-> subs]

(* login_user without the superadmin's early return *)
login_result_gated(subs, t, username, password_ok) ==
    LET found == { u \in users : u.username = username } IN
    IF found = {} \/ ~password_ok
    THEN [response |-> Resp(400, "Invalid username or password"), subscriptions |-> subs]
    ELSE LET user == CHOOSE u \in found : TRUE
             own == SubscriptionOf(subs, user.business_id)
         IN
         IF own = {}
         THEN [response |-> Resp(400, "Subscription record missing. Contact support."),
               subscriptions |-> subs]
         ELSE SubscriptionGate(subs, t, CHOOSE s \in own : TRUE)

(* POST /auth/login_form: the answer and the subscriptions table it leaves *)
login_result(subs, t, username, password_ok) ==
    LET found == { u \in users : u.username = username } IN
    IF found = {} \/ ~password_ok
    THEN [response |-> Resp(400, "Invalid username or password"), subscriptions |-> subs]
    ELSE LET user == CHOOSE u \in found : TRUE
             own == SubscriptionOf(subs, user.business_id)
         IN
         IF user.role = "superadmin"
         THEN [response |-> Resp(302, "/superadmin/admin_panel"), subscriptions |-> subs]
         ELSE IF own = {}
         THEN [response |-> Resp(400, "Subscription record missing. Contact support."),
               subscriptions |-> subs]
         ELSE SubscriptionGate(subs, t, CHOOSE s \in own : TRUE)

(* the users rows login_user assigns (is_active = 1, last_login = utcnow()) *)
(* on its two paths that end in a redirect                                 *)
login_writes(subs, t, username, password_ok) ==
    LET found == { u \in users : u.username = username } IN
    IF found = {} \/ ~password_ok
    THEN {}
    ELSE LET user == CHOOSE u \in found : TRUE
             own == SubscriptionOf(subs, user.business_id)
             stamped == {[user_id |-> user.id, is_active |-> TRUE, last_login |-> t]}
         IN
         IF user.role = "superadmin"
         THEN stamped
         ELSE IF own = {}
         THEN {}
         ELSE LET subscription == CHOOSE s \in own : TRUE IN
              IF subscription.status = "suspended"
              THEN {}
              ELSE IF subscription.status \in {"trial", "active"} /\ subscription.end_date < t
              THEN {}
              ELSE stamped

login_user(username, password_ok) ==
    LET result == login_result(subscriptions, now, username, password_ok) IN
    /\ response' = result.response
    /\ subscriptions' = result.subscriptions
    /\ UNCHANGED <<tenantTables, ledgerTables, onboardingTables, now, reqs>>

(* the row an operator request leaves: activate, renew, suspend, reactivate *)
Activated(s, t) ==
    [s EXCEPT !.status = "active", !.is_active = TRUE,
              !.start_date = t, !.end_date = t + PeriodDays]

(* a renewal that also restarts the period *)
RenewedFromOldEnd(s) ==
    [s EXCEPT !.status = "active", !.is_active = TRUE,
              !.start_date = s.end_date, !.end_date = s.end_date + PeriodDays]

Renewed(s) ==
    [s EXCEPT !.status = "active", !.is_active = TRUE, !.end_date = s.end_date + PeriodDays]

Suspended(s) == [s EXCEPT !.status = "suspended", !.is_active = FALSE]

(* a reactivation that also extends the period *)
ReactivatedAndExtended(s) ==
    [s EXCEPT !.status = "active", !.is_active = TRUE, !.end_date = s.end_date + PeriodDays]

Reactivated(s) == [s EXCEPT !.status = "active", !.is_active = TRUE]

(* An operator request on the subscription of business_id: the answer and  *)
(* the subscriptions table it leaves; `change` gives the row's new value.  *)
SuperadminResult(subs, actor, business_id, change, message) ==
    LET own == SubscriptionOf(subs, business_id) IN
    IF actor.role # "superadmin"
    THEN [response |-> Resp(403, "Only superadmin allowed"), subscriptions |-> subs]
    ELSE IF own = {}
    THEN [response |-> Resp(404, "Subscription not found"), subscriptions |-> subs]
    ELSE LET subscription == CHOOSE s \in own : TRUE IN
         [response |-> Resp(200, message),
          subscriptions |-> Updated(subs, subscription, change[subscription])]

activate_result(subs, t, actor, business_id) ==
    SuperadminResult(subs, actor, business_id, [s \in subs |-> Activated(s, t)],
                     "Subscription activated for 30 days")

renew_result(subs, actor, business_id) ==
    SuperadminResult(subs, actor, business_id, [s \in subs |-> Renewed(s)],
                     "Subscription renewed +30 days")

suspend_result(subs, actor, business_id) ==
    SuperadminResult(subs, actor, business_id, [s \in subs |-> Suspended(s)],
                     "Business suspended")

reactivate_result(subs, actor, business_id) ==
    SuperadminResult(subs, actor, business_id, [s \in subs |-> Reactivated(s)],
                     "Business reactivated")

SuperadminAction(result) ==
    /\ subscriptions' = result.subscriptions
    /\ response' = result.response
    /\ UNCHANGED <<tenantTables, ledgerTables, onboardingTables, now, reqs>>

(* POST /superadmin/activate/{business_id} *)
activate_subscription(actor, business_id) ==
    SuperadminAction(activate_result(subscriptions, now, actor, business_id))

(* POST /superadmin/renew/{business_id}; end_date is kept within the model's horizon *)
renew_subscription(actor, business_id) ==
    /\ \A s \in SubscriptionOf(subscriptions, business_id) : s.end_date <= MaxNow
    /\ SuperadminAction(renew_result(subscriptions, actor, business_id))

(* POST /superadmin/suspend/{business_id} *)
suspend_account(actor, business_id) ==
    SuperadminAction(suspend_result(subscriptions, actor, business_id))

(* POST /superadmin/reactivate/{business_id} *)
reactivate_account(actor, business_id) ==
    SuperadminAction(reactivate_result(subscriptions, actor, business_id))

(* Time passes between requests *)
Tick ==
    /\ now < MaxNow
    /\ now' = now + 1
    /\ UNCHANGED <<tenantTables, ledgerTables, onboardingTables, subscriptions, reqs, response>>

----------------------------------------------------------------------------
(* Spec: the ledger, one request at a time *)

InitPrompts == [k \in BusinessIds \X StageNames |-> 0]

InitSubscriptions ==
    { [business_id |-> b, status |-> "trial", is_active |-> TRUE,
       start_date |-> 0, end_date |-> TrialDays] : b \in BusinessIds }

InitShadow ==
    [b \in BusinessIds |-> [movements |-> <<>>, events |-> {}, branches |-> InitBranches]]

Init ==
    /\ business = InitBusiness
    /\ users = InitUsers
    /\ branches = InitBranches
    /\ staff = InitStaff
    /\ products = InitProducts
    /\ movements = <<>>
    /\ committed = [t \in Tuples |-> 0]
    /\ events = {}
    /\ orders = {}
    /\ push_subscriptions = {}
    /\ prompts = InitPrompts
    /\ subscriptions = InitSubscriptions
    /\ now = 0
    /\ reqs = <<>>
    /\ response = Resp(200, "none")
    /\ shadow = InitShadow

Restock ==
    \E u \in users, p \in ProductIdInputs, q \in QuantityInputs, br \in BranchIdInputs :
        restock_product(u, p, q, br)

Assign ==
    \E u \in users, p \in ProductIdInputs, s \in StaffIdInputs, q \in QuantityInputs :
        assign_stock(u, p, s, q)

(* Requests are taken while the ledger holds fewer than MaxMovements rows *)
Next ==
    \/ Len(movements) < MaxMovements /\ Restock /\ UNCHANGED shadow
    \/ Len(movements) < MaxMovements /\ Assign /\ UNCHANGED shadow

Spec == Init /\ [][Next]_vars

----------------------------------------------------------------------------
(* SpecForms: the same requests on a ledger of at most MaxFormMovements     *)
(* rows, for the properties of the handlers' input checks                   *)

NextForms ==
    \/ Len(movements) < MaxFormMovements /\ Restock /\ UNCHANGED shadow
    \/ Len(movements) < MaxFormMovements /\ Assign /\ UNCHANGED shadow

SpecForms == Init /\ [][NextForms]_vars

----------------------------------------------------------------------------
(* SpecConc: assign_stock requests of branch-restricted users in parallel   *)

ConcUsers == { u \in InitUsers : u.role # "admin" }

InitConc ==
    /\ business = InitBusiness
    /\ users = InitUsers
    /\ branches = InitBranches
    /\ staff = InitStaff
    /\ products = InitProducts
    /\ movements = <<>>
    /\ committed = [t \in Tuples |-> 0]
    /\ events = {}
    /\ orders = {}
    /\ push_subscriptions = {}
    /\ prompts = InitPrompts
    /\ subscriptions = InitSubscriptions
    /\ now = 0
    /\ reqs = [r \in 1 .. NumReqs |-> IdleReq]
    /\ response = Resp(200, "none")
    /\ shadow = InitShadow

ConcRestock ==
    \E u \in ConcUsers, p \in ProductIdInputs, q \in QuantityInputs :
        restock_product(u, p, q, NULL)

ConcRead ==
    \E r \in 1 .. NumReqs, u \in ConcUsers, p \in ProductIdInputs,
       s \in StaffIdInputs, q \in QuantityInputs :
        assign_stock_read(r, u, p, s, q)

ConcWrite ==
    \E r \in 1 .. NumReqs : assign_stock_write(r)

NextConc ==
    \/ Len(movements) < MaxMovements /\ ConcRestock /\ UNCHANGED shadow
    \/ ConcRead /\ UNCHANGED shadow
    \/ Len(movements) < MaxMovements /\ ConcWrite /\ UNCHANGED shadow

SpecConc == InitConc /\ [][NextConc]_vars

----------------------------------------------------------------------------
(* SpecTenant: ledger, branch and onboarding requests of two businesses,    *)
(* run side by side with, for each business, the run in which the same      *)
(* requests are made except those of that business's actors                 *)

(* The request of `user` is made in every run but the one without the       *)
(* user's business; after[b] is what the request leaves of shadow[b]        *)
SecondRuns(user, after) ==
    shadow' = [b \in BusinessIds |->
                 IF user.business_id = b THEN shadow[b] ELSE after[b]]

TenantRestock ==
    \E u \in users, p \in ProductIdInputs, q \in QuantityInputs, br \in BranchIdInputs :
        /\ restock_product(u, p, q, br)
        /\ SecondRuns(u, [b \in BusinessIds |-> [shadow[b] EXCEPT !.movements =
                restock_result(shadow[b].movements, shadow[b].branches, u, p, q, br).movements]])

TenantAssign ==
    \E u \in users, p \in ProductIdInputs, s \in StaffIdInputs, q \in QuantityInputs :
        /\ assign_stock(u, p, s, q)
        /\ SecondRuns(u, [b \in BusinessIds |-> [shadow[b] EXCEPT !.movements =
                assign_stock_result(shadow[b].movements, u, p, s, q).movements]])

TenantBranch ==
    \E u \in users :
        /\ create_branch(u)
        /\ SecondRuns(u, [b \in BusinessIds |-> [shadow[b] EXCEPT !.branches =
                create_branch_result(shadow[b].branches, u).branches]])

TenantOnboarding ==
    \E u \in users :
        /\ onboarding_status(u)
        /\ SecondRuns(u, [b \in BusinessIds |-> [shadow[b] EXCEPT !.events =
                onboarding_status_result(shadow[b].events, u).events]])

TenantInstalled ==
    \E u \in users :
        /\ mark_installed(u)
        /\ SecondRuns(u, [b \in BusinessIds |-> [shadow[b] EXCEPT !.events =
                mark_installed_result(shadow[b].events, u).events]])

LedgerOpen ==
    /\ Len(movements) < MaxTenantMovements
    /\ \A b \in BusinessIds : Len(shadow[b].movements) < MaxTenantMovements

NextTenant ==
    \/ LedgerOpen /\ TenantRestock
    \/ LedgerOpen /\ TenantAssign
    \/ Cardinality(branches) < MaxBranches /\ TenantBranch
    \/ TenantOnboarding
    \/ TenantInstalled

SpecTenant == Init /\ [][NextTenant]_vars

----------------------------------------------------------------------------
(* SpecOnb: the onboarding tracker, one request at a time.  The businesses  *)
(* start without products; the orders and the view_report events, written  *)
(* by handlers that are not among the sources, are any the tables can hold. *)

ProductNames == {"soap", "salt"}

OrderRows == { [id |-> b, business_id |-> b] : b \in BusinessIds }
ReportEvents == { <<b, "view_report">> : b \in BusinessIds }

InitOnb ==
    /\ business = InitBusiness
    /\ users = InitUsers
    /\ branches = InitBranches
    /\ staff = InitStaff
    /\ products = {}
    /\ movements = <<>>
    /\ committed = [t \in Tuples |-> 0]
    /\ events \in SUBSET ReportEvents
    /\ orders \in SUBSET OrderRows
    /\ push_subscriptions = {}
    /\ prompts = InitPrompts
    /\ subscriptions = InitSubscriptions
    /\ now = 0
    /\ reqs = <<>>
    /\ response = Resp(200, "none")
    /\ shadow = InitShadow

OnbStatus == \E u \in users : onboarding_status(u)
OnbInstalled == \E u \in users : mark_installed(u)
OnbProduct == \E u \in users, n \in ProductNames : create_product(u, n)

NextOnb ==
    \/ OnbStatus /\ UNCHANGED shadow
    \/ OnbInstalled /\ UNCHANGED shadow
    \/ Cardinality(products) < MaxProducts /\ OnbProduct /\ UNCHANGED shadow

SpecOnb == InitOnb /\ [][NextOnb]_vars

----------------------------------------------------------------------------
(* SpecOnbConc: onboarding_status requests in parallel                      *)

InitOnbConc ==
    /\ business = InitBusiness
    /\ users = InitUsers
    /\ branches = InitBranches
    /\ staff = InitStaff
    /\ products = {}
    /\ movements = <<>>
    /\ committed = [t \in Tuples |-> 0]
    /\ events = {}
    /\ orders \in SUBSET OrderRows
    /\ push_subscriptions = {}
    /\ prompts = InitPrompts
    /\ subscriptions = InitSubscriptions
    /\ now = 0
    /\ reqs = [r \in 1 .. NumReqs |-> IdleStatusReq]
    /\ response = Resp(200, "none")
    /\ shadow = InitShadow

(* the requests are those of the businesses' admins *)
OnbConcUsers == { u \in InitUsers : u.role = "admin" }

ConcStatusRead ==
    \E r \in 1 .. NumReqs, u \in OnbConcUsers : onboarding_status_read(r, u)
ConcStatusWrite == \E r \in 1 .. NumReqs : onboarding_status_write(r)
ConcInstalled == \E u \in OnbConcUsers : mark_installed(u)
ConcProduct == \E u \in OnbConcUsers : create_product(u, "soap")

NextOnbConc ==
    \/ ConcStatusRead /\ UNCHANGED shadow
    \/ ConcStatusWrite /\ UNCHANGED shadow
    \/ ConcInstalled /\ UNCHANGED shadow
    \/ Cardinality(products) < MaxProducts /\ ConcProduct /\ UNCHANGED shadow

SpecOnbConc == InitOnbConc /\ [][NextOnbConc]_vars

----------------------------------------------------------------------------
(* SpecSub: registration, login and the superadmin's actions over time      *)

Registrants == { [username |-> "owner", email |-> "owner@example.com"] }
UsernameInputs == {"owner", "root", "nobody"}
BusinessIdInputs == {1, 2}

InitSub ==
    /\ business = {}
    /\ users = { [id |-> 1, business_id |-> NULL, username |-> "root",
                  role |-> "superadmin", branch_id |-> NULL] }
    /\ branches = {}
    /\ staff = {}
    /\ products = {}
    /\ movements = <<>>
    /\ committed = [t \in Tuples |-> 0]
    /\ events = {}
    /\ orders = {}
    /\ push_subscriptions = {}
    /\ prompts = InitPrompts
    /\ subscriptions = {}
    /\ now = 0
    /\ reqs = <<>>
    /\ response = Resp(200, "none")
    /\ shadow = InitShadow

SubRegister == \E x \in Registrants : register_business(x.username, x.email)
SubLogin == \E n \in UsernameInputs, ok \in BOOLEAN : login_user(n, ok)
SubActivate == \E a \in users, b \in BusinessIdInputs : activate_subscription(a, b)
SubRenew == \E a \in users, b \in BusinessIdInputs : renew_subscription(a, b)
SubSuspend == \E a \in users, b \in BusinessIdInputs : suspend_account(a, b)
SubReactivate == \E a \in users, b \in BusinessIdInputs : reactivate_account(a, b)

NextSub ==
    \/ SubRegister /\ UNCHANGED shadow
    \/ SubLogin /\ UNCHANGED shadow
    \/ SubActivate /\ UNCHANGED shadow
    \/ SubRenew /\ UNCHANGED shadow
    \/ SubSuspend /\ UNCHANGED shadow
    \/ SubReactivate /\ UNCHANGED shadow
    \/ Tick /\ UNCHANGED shadow

SpecSub == InitSub /\ [][NextSub]_vars

----------------------------------------------------------------------------
(* SpecReg: registrations in parallel, each commit a step of its own, with *)
(* logins between the commits                                              *)

RegRegistrants ==
    { [username |-> "owner", email |-> "owner@example.com"],
      [username |-> "owner", email |-> "other@example.com"],
      [username |-> "second", email |-> "second@example.com"] }

InitReg ==
    /\ business = {}
    /\ users = { [id |-> 1, business_id |-> NULL, username |-> "root",
                  role |-> "superadmin", branch_id |-> NULL] }
    /\ branches = {}
    /\ staff = {}
    /\ products = {}
    /\ movements = <<>>
    /\ committed = [t \in Tuples |-> 0]
    /\ events = {}
    /\ orders = {}
    /\ push_subscriptions = {}
    /\ prompts = InitPrompts
    /\ subscriptions = {}
    /\ now = 0
    /\ reqs = [r \in 1 .. NumReqs |-> IdleRegistration]
    /\ response = Resp(200, "none")
    /\ shadow = InitShadow

RegBusiness ==
    \E r \in 1 .. NumReqs, x \in RegRegistrants :
        register_business_commit(r, x.username, x.email)
RegUser == \E r \in 1 .. NumReqs : register_user_commit(r)
RegSubscription == \E r \in 1 .. NumReqs : register_subscription_commit(r)
RegLogin == \E n \in {"owner", "second"} : login_user(n, TRUE)

NextReg ==
    \/ RegBusiness /\ UNCHANGED shadow
    \/ RegUser /\ UNCHANGED shadow
    \/ RegSubscription /\ UNCHANGED shadow
    \/ RegLogin /\ UNCHANGED shadow

SpecReg == InitReg /\ [][NextReg]_vars

----------------------------------------------------------------------------
(* SpecProd: the product router's writes on the products table, starting   *)
(* without products                                                        *)

PriceInputs == {1, 2}
ColumnQuantityInputs == {0, 5}
UpdateKeys == {"quantity", "price", "buying_price"}

(* the JSON bodies of update_stock: any of the three keys, each with a value *)
StockUpdates ==
    { d \in UNION { [K -> PriceInputs \cup ColumnQuantityInputs] : K \in SUBSET UpdateKeys } :
        /\ "quantity" \in DOMAIN d => d["quantity"] \in ColumnQuantityInputs
        /\ "price" \in DOMAIN d => d["price"] \in PriceInputs
        /\ "buying_price" \in DOMAIN d => d["buying_price"] \in PriceInputs }

InitProd ==
    /\ business = InitBusiness
    /\ users = InitUsers
    /\ branches = InitBranches
    /\ staff = InitStaff
    /\ products = {}
    /\ movements = <<>>
    /\ committed = [t \in Tuples |-> 0]
    /\ events = {}
    /\ orders = {}
    /\ push_subscriptions = {}
    /\ prompts = InitPrompts
    /\ subscriptions = InitSubscriptions
    /\ now = 0
    /\ reqs = <<>>
    /\ response = Resp(200, "none")
    /\ shadow = InitShadow

ProdAdd ==
    \E u \in users, n \in ProductNames, price \in PriceInputs, buying_price \in PriceInputs,
       q \in ColumnQuantityInputs, from_onboarding \in BOOLEAN :
        add_product(u, n, price, buying_price, q, from_onboarding)

ProdUpdate ==
    \E u \in users, p \in ProductIdInputs, d \in StockUpdates : update_stock(u, p, d)

NextProd ==
    \/ Cardinality(products) < MaxProducts /\ ProdAdd /\ UNCHANGED shadow
    \/ ProdUpdate /\ UNCHANGED shadow

SpecProd == InitProd /\ [][NextProd]_vars

----------------------------------------------------------------------------
(* SpecStock: the product router's writes of the quantity column next to   *)
(* restocks and issues of product 1 in business 1                          *)

StockRestock ==
    \E u \in users, br \in {NULL, 1, 2} :
        restock_product(u, 1, 2, br)

StockAssign ==
    \E u \in users, s \in {1, 2} :
        assign_stock(u, 1, s, 1)

StockAdd ==
    \E u \in users, q \in ColumnQuantityInputs : add_product(u, "salt", 2, 1, q, FALSE)

StockUpdate ==
    \E u \in users, p \in {1, 3}, q \in ColumnQuantityInputs :
        update_stock(u, p, [k \in {"quantity"} |-> q])

NextStock ==
    \/ Len(movements) < MaxFormMovements /\ StockRestock /\ UNCHANGED shadow
    \/ Len(movements) < MaxFormMovements /\ StockAssign /\ UNCHANGED shadow
    \/ StockAdd /\ UNCHANGED shadow
    \/ StockUpdate /\ UNCHANGED shadow

SpecStock == Init /\ [][NextStock]_vars

----------------------------------------------------------------------------
(* Push subscriptions and the operator's reminder                          *)

(* a delivery: webpush returns, or raises WebPushException carrying the    *)
(* push service's response (its status code) or no response                *)
Delivered == [raised |-> FALSE, status_code |-> NULL]
Failure(status_code) == [raised |-> TRUE, status_code |-> status_code]
PushOutcomes == {Delivered} \cup { Failure(c) : c \in {404, 410, 500, NULL} }

(* the test treating 410 alone as gone *)
GoneOnly410 == {410}

(* status_code in (404, 410) *)
GoneStatuses == {404, 410}

SubscriptionsOf(pushes, business_id) == { s \in pushes : s.business_id = business_id }

(* POST /push/subscribe: upsert by endpoint.  A row is known by its        *)
(* endpoint; the keys p256dh and auth are kept out of the row.             *)
subscribe_result(pushes, user, endpoint, keys_ok) ==
    LET existing == { s \in pushes : s.endpoint = endpoint } IN
    IF user.business_id = NULL
    THEN [response |-> Resp(400, "User has no business_id (cannot subscribe)"),
          push_subscriptions |-> pushes]
    ELSE IF endpoint = "" \/ ~keys_ok
    THEN [response |-> Resp(400, "Invalid subscription payload"), push_subscriptions |-> pushes]
    ELSE IF existing # {}
    THEN [response |-> Resp(200, "Updated subscription"),
          push_subscriptions |->
              (pushes \ existing) \cup
                  { [user_id |-> user.id, business_id |-> user.business_id,
                     endpoint |-> endpoint] }]
    ELSE [response |-> Resp(200, "Subscribed"),
          push_subscriptions |->
              pushes \cup { [user_id |-> user.id, business_id |-> user.business_id,
                             endpoint |-> endpoint] }]

subscribe(user, endpoint, keys_ok) ==
    LET result == subscribe_result(push_subscriptions, user, endpoint, keys_ok) IN
    /\ push_subscriptions' = result.push_subscriptions
    /\ response' = result.response
    /\ UNCHANGED <<tenantTables, ledgerTables, events, orders, prompts,
                   subscriptionTables, reqs>>

(* for sub in subs: the counters and the rows handed to db.delete *)
RECURSIVE PushLoop(_, _)
PushLoop(subs, outcome) ==
    IF subs = {}
    THEN [sent |-> 0, failed |-> 0, deleted |-> 0, removed |-> {}]
    ELSE LET sub == CHOOSE s \in subs : TRUE
             rest == PushLoop(subs \ {sub}, outcome)
             ex == outcome[sub.endpoint]
         IN IF ~ex.raised
            THEN [rest EXCEPT !.sent = @ + 1]
            ELSE IF ex.status_code \in GoneStatuses
            THEN [rest EXCEPT !.failed = @ + 1, !.deleted = @ + 1,
                              !.removed = @ \cup {sub}]
            ELSE [rest EXCEPT !.failed = @ + 1]

Counted(message, sent, failed, deleted) ==
    [status |-> 200, detail |-> message, sent |-> sent, failed |-> failed,
     deleted |-> deleted]

(* POST /superadmin/push_reminder/{business_id}; outcome gives, for each   *)
(* endpoint a delivery is attempted to, what webpush does                  *)
push_reminder_result(pushes, actor, business_id, payload_ok, vapid_set, outcome) ==
    LET subs == SubscriptionsOf(pushes, business_id)
        loop == PushLoop(subs, outcome)
    IN
    IF actor.role # "superadmin"
    THEN [response |-> Resp(403, "Only superadmin allowed"), push_subscriptions |-> pushes]
    ELSE IF ~payload_ok
    THEN [response |-> Resp(400, "Title and message are required"),
          push_subscriptions |-> pushes]
    ELSE IF subs = {}
    THEN [response |-> Counted("No subscribed devices for this business", 0, 0, 0),
          push_subscriptions |-> pushes]
    ELSE IF ~vapid_set
    THEN [response |-> Resp(500, "VAPID_PRIVATE_KEY_PEM not set"),
          push_subscriptions |-> pushes]
    ELSE [response |-> Counted("Reminder processed", loop.sent, loop.failed, loop.deleted),
          push_subscriptions |-> IF loop.deleted # 0 THEN pushes \ loop.removed ELSE pushes]

push_reminder(actor, business_id, payload_ok, vapid_set, outcome) ==
    LET result == push_reminder_result(push_subscriptions, actor, business_id,
                                       payload_ok, vapid_set, outcome) IN
    /\ push_subscriptions' = result.push_subscriptions
    /\ response' = result.response
    /\ UNCHANGED <<tenantTables, ledgerTables, events, orders, prompts,
                   subscriptionTables, reqs>>

(* SpecPush: the users of the two businesses subscribe three devices and   *)
(* the operator (or an admin, who is refused) sends reminders              *)

Endpoints == {"e1", "e2", "e3"}
EndpointInputs == Endpoints \cup {""}
Operator == [id |-> 9, business_id |-> NULL, username |-> "root",
             role |-> "superadmin", branch_id |-> NULL]

(* what webpush may do for the endpoints of a business's rows *)
OutcomesFor(pushes, business_id) ==
    [ { s.endpoint : s \in SubscriptionsOf(pushes, business_id) } -> PushOutcomes ]

InitPush ==
    /\ business = InitBusiness
    /\ users = InitUsers \cup {Operator}
    /\ branches = InitBranches
    /\ staff = InitStaff
    /\ products = InitProducts
    /\ movements = <<>>
    /\ committed = [t \in Tuples |-> 0]
    /\ events = {}
    /\ orders = {}
    /\ push_subscriptions = {}
    /\ prompts = InitPrompts
    /\ subscriptions = InitSubscriptions
    /\ now = 0
    /\ reqs = <<>>
    /\ response = Resp(200, "none")
    /\ shadow = InitShadow

PushSubscribe ==
    \E u \in { x \in users : x.role \in {"admin", "superadmin"} },
       e \in EndpointInputs, keys_ok \in BOOLEAN :
        subscribe(u, e, keys_ok)

PushReminder ==
    \E a \in { x \in users : x.role \in {"admin", "superadmin"} },
       b \in BusinessIds, payload_ok \in BOOLEAN, vapid_set \in BOOLEAN :
        \E outcome \in OutcomesFor(push_subscriptions, b) :
            push_reminder(a, b, payload_ok, vapid_set, outcome)

NextPush ==
    \/ PushSubscribe /\ UNCHANGED shadow
    \/ PushReminder /\ UNCHANGED shadow

SpecPush == InitPush /\ [][NextPush]_vars

----------------------------------------------------------------------------
(* Creation of users: the operator account and the members of a business   *)

SuperadminRow(id, username) ==
    [id |-> id, business_id |-> NULL, username |-> username,
     role |-> "superadmin", branch_id |-> NULL]

(* POST /superadmin/create_superadmin, the request running alone *)
create_superadmin_result(usrs, username) ==
    IF \E u \in usrs : u.role = "superadmin"
    THEN [response |-> Resp(400, "Superadmin already exists!"), users |-> usrs]
    ELSE IF \E u \in usrs : u.username = username
    THEN [response |-> Resp(500, "Internal Server Error"), users |-> usrs]
    ELSE [response |-> Resp(200, "Superadmin created successfully!"),
          users |-> usrs \cup {SuperadminRow(Cardinality(usrs) + 1, username)}]

(* create_superadmin statement by statement: the existence query (lines    *)
(* 73-75), then db.add and db.commit (91-92).  users.username is unique;   *)
(* a commit the constraint refuses raises out of the handler.              *)
IdleCreation == [pc |-> "idle", username |-> ""]

create_superadmin_read(r, username) ==
    /\ reqs[r].pc \in {"idle", "done"}
    /\ IF \E u \in users : u.role = "superadmin"
       THEN /\ response' = Resp(400, "Superadmin already exists!")
            /\ reqs' = [reqs EXCEPT ![r] = [pc |-> "done", username |-> username]]
       ELSE /\ reqs' = [reqs EXCEPT ![r] = [pc |-> "checked", username |-> username]]
            /\ UNCHANGED response
    /\ UNCHANGED <<tenantTables, ledgerTables, onboardingTables, subscriptionTables>>

create_superadmin_write(r) ==
    LET q == reqs[r] IN
    /\ q.pc = "checked"
    /\ IF \E u \in users : u.username = q.username
       THEN /\ response' = Resp(500, "Internal Server Error")
            /\ UNCHANGED users
       ELSE /\ users' = users \cup {SuperadminRow(Cardinality(users) + 1, q.username)}
            /\ response' = Resp(200, "Superadmin created successfully!")
    /\ reqs' = [reqs EXCEPT ![r].pc = "done"]
    /\ UNCHANGED <<business, branches, staff, products, ledgerTables, onboardingTables,
                   subscriptionTables>>

(* POST /auth/create_user_member *)
create_user_member_result(usrs, brs, user, username, role, branch_id) ==
    IF user.role # "admin"
    THEN [response |-> Resp(403, "Access denied"), users |-> usrs]
    ELSE IF role \notin {"manager", "storekeeper"}
    THEN [response |-> Resp(400, "Invalid role selected"), users |-> usrs]
    ELSE IF \A b \in brs : ~(b.id = branch_id /\ b.business_id = user.business_id)
    THEN [response |-> Resp(400, "Invalid branch selected"), users |-> usrs]
    ELSE IF \E u \in usrs : u.username = username
    THEN [response |-> Resp(400, "Username already exists"), users |-> usrs]
    ELSE [response |-> Resp(303, "/auth/manage_user"),
          users |-> usrs \cup
              {[id |-> Cardinality(usrs) + 1, business_id |-> user.business_id,
                username |-> username, role |-> role, branch_id |-> branch_id]}]

create_user_member(user, username, role, branch_id) ==
    LET result == create_user_member_result(users, branches, user, username, role,
                                            branch_id) IN
    /\ users' = result.users
    /\ response' = result.response
    /\ UNCHANGED <<business, branches, staff, products, ledgerTables, onboardingTables,
                   subscriptionTables, reqs>>

(* SpecAdmin: NumReqs create_superadmin requests, their statements         *)
(* interleaved, next to admins adding members to their businesses          *)

OperatorNames == {"root", "root2"}
MemberNames == {"clerk", "root"}
RoleInputs == {"manager", "storekeeper", "superadmin"}

InitAdmin ==
    /\ business = InitBusiness
    /\ users = InitUsers
    /\ branches = InitBranches
    /\ staff = InitStaff
    /\ products = InitProducts
    /\ movements = <<>>
    /\ committed = [t \in Tuples |-> 0]
    /\ events = {}
    /\ orders = {}
    /\ push_subscriptions = {}
    /\ prompts = InitPrompts
    /\ subscriptions = InitSubscriptions
    /\ now = 0
    /\ reqs = [r \in 1 .. NumReqs |-> IdleCreation]
    /\ response = Resp(200, "none")
    /\ shadow = InitShadow

AdminRead == \E r \in 1 .. NumReqs, n \in OperatorNames : create_superadmin_read(r, n)
AdminWrite == \E r \in 1 .. NumReqs : create_superadmin_write(r)
AdminMember ==
    \E u \in users, n \in MemberNames, role \in RoleInputs, br \in {1, 3} :
        create_user_member(u, n, role, br)

NextAdmin ==
    \/ AdminRead /\ UNCHANGED shadow
    \/ AdminWrite /\ UNCHANGED shadow
    \/ AdminMember /\ UNCHANGED shadow

SpecAdmin == InitAdmin /\ [][NextAdmin]_vars

----------------------------------------------------------------------------
(* SpecLedger: the ledger of Spec, one request at a time, with restocks of *)
(* two units (or of none, refused) and issues of every quantity            *)

RestockQuantities == {0, 2}

LedgerRestock ==
    \E u \in users, p \in ProductIdInputs, q \in RestockQuantities, br \in BranchIdInputs :
        restock_product(u, p, q, br)

LedgerAssign ==
    \E u \in users, p \in ProductIdInputs, s \in StaffIdInputs, q \in QuantityInputs :
        assign_stock(u, p, s, q)

NextLedger ==
    \/ Len(movements) < MaxMovements /\ LedgerRestock /\ UNCHANGED shadow
    \/ Len(movements) < MaxMovements /\ LedgerAssign /\ UNCHANGED shadow

SpecLedger == Init /\ [][NextLedger]_vars

----------------------------------------------------------------------------
(* SpecRecent: a ledger long enough for the recent-activity lists to be    *)
(* cut: the manager of branch 1 restocks product 1, the storekeeper of     *)
(* branch 1 issues it one unit at a time, the admin restocks branch 2 (at  *)
(* once, while it has never been stocked), and the manager and the         *)
(* storekeeper request their pages.  One restock covers RecentLimit + 1    *)
(* issues.                                                                 *)

RecentRestock ==
    \E u \in { x \in users : x.role = "manager" } :
        restock_product(u, 1, RecentLimit + 1, NULL)

RecentAssign ==
    \E u \in { x \in users : x.role = "storekeeper" } : assign_stock(u, 1, 1, 1)

RecentOtherBranch ==
    /\ \A i \in 1 .. Len(movements) : movements[i].branch_id # 2
    /\ restock_product(CHOOSE x \in users : x.id = 1, 1, 1, 2)

RecentPages ==
    \/ \E u \in { x \in users : x.role = "storekeeper" } : get_assign_page(u)
    \/ \E u \in { x \in users : x.role = "manager" } : get_restock_page(u)

NextRecent ==
    \/ Len(movements) < MaxRecent /\ RecentRestock /\ UNCHANGED shadow
    \/ Len(movements) < MaxRecent /\ RecentAssign /\ UNCHANGED shadow
    \/ Len(movements) < MaxRecent /\ RecentOtherBranch /\ UNCHANGED shadow
    \/ RecentPages /\ UNCHANGED shadow

SpecRecent == Init /\ [][NextRecent]_vars

----------------------------------------------------------------------------
(* Helpers of the properties *)

RECURSIVE SumOver(_, _)
SumOver(S, f) ==
    IF S = {} THEN 0
    ELSE LET x == CHOOSE x \in S : TRUE IN f[x] + SumOver(S \ {x}, f)

(* A branch-restricted identity of a business and branch *)
BranchReader(business_id, branch_id) ==
    [id |-> NULL, business_id |-> business_id, username |-> "reader",
     role |-> "storekeeper", branch_id |-> branch_id]

Issued(m) == m.movement_type = "ISSUE"
Received(m) == m.movement_type = "IN"

OwnedBy(table, id, business_id) ==
    \E x \in table : x.id = id /\ x.business_id = business_id

----------------------------------------------------------------------------
(* C1: after any sequence of restock and assign_stock requests, run one at *)
(* a time by admins, managers and storekeepers, the sum of quantity over   *)
(* each (business, branch, product) is >= 0.                               *)
(* Violated: an admin's issue is checked against the business-wide balance *)
(* and written to the staff member's branch.                               *)
C1_BalanceNeverNegative ==
    \A t \in Tuples : Balance(movements, t[1], t[2], t[3]) >= 0

(* C2: assign_stock requests on one (business, branch, product) whose reads *)
(* and inserts interleave do not all succeed when their quantities add up  *)
(* to more than the balance they read, and no balance goes below zero.     *)
(* Violated: two requests read the same balance and both insert.           *)
SameTuple(r1, r2) ==
    /\ reqs[r1].branch_id = reqs[r2].branch_id
    /\ reqs[r1].product_id = reqs[r2].product_id

C2_ConcurrentIssuesDoNotOverdraw ==
    /\ \A r1, r2 \in DOMAIN reqs :
          ( /\ r1 # r2
            /\ reqs[r1].pc = "done" /\ reqs[r1].ok
            /\ reqs[r2].pc = "done" /\ reqs[r2].ok
            /\ SameTuple(r1, r2)
            /\ reqs[r1].read_at = reqs[r2].read_at )
          => reqs[r1].quantity + reqs[r2].quantity <= reqs[r1].current_stock
    /\ \A t \in Tuples : Balance(movements, t[1], t[2], t[3]) >= 0

(* C3: in every reachable state, an assign_stock that passes the role,     *)
(* quantity, staff and product checks fails with "Not enough stock" and    *)
(* leaves the ledger, and so the stock, unchanged when its quantity        *)
(* exceeds the stock; otherwise it succeeds and the stock read after it is *)
(* the stock read before it less exactly its quantity.                     *)
C3_AssignStockChecksTheBalance ==
    \A u \in users, p \in ProductIdInputs, s \in StaffIdInputs, q \in QuantityInputs :
        AssignRefusal(u, p, s, q).detail = "valid" =>
            LET result == assign_stock_result(movements, u, p, s, q) IN
            IF q > get_product_stock(u, p)
            THEN /\ result.response = Resp(400, "Not enough stock")
                 /\ result.movements = movements
                 /\ ProductStock(result.movements, u, p) = get_product_stock(u, p)
            ELSE /\ result.response.status = 303
                 /\ ProductStock(result.movements, u, p) = get_product_stock(u, p) - q

(* IN 2, ISSUE 1, then an ISSUE of 2 refused with the stock still 1 *)
C3_Witness ==
    /\ Len(movements) = 2
    /\ Received(movements[1]) /\ movements[1].quantity = 2
    /\ Issued(movements[2]) /\ movements[2].quantity = -1
    /\ movements[1].branch_id = 1 /\ movements[2].branch_id = 1
    /\ response.detail = "Not enough stock"
    /\ get_product_stock(BranchReader(1, 1), 1) = 1

(* C4: the stock read for a (business, branch, product) is the sum of the  *)
(* signed quantities of the requests that succeeded on it (+q per restock, *)
(* -q per issue), 0 when there are none; failed requests count nothing.    *)
C4_StockIsSumOfCommitted ==
    \A t \in Tuples :
        ProductStock(movements, BranchReader(t[1], t[2]), t[3]) = committed[t]

(* a restock and an issue have succeeded and a request has failed *)
C4_Witness ==
    /\ committed[<<1, 1, 1>>] = 1
    /\ Len(movements) = 2
    /\ response.status = 400

(* C5: what a manager or storekeeper reads (product stock, the recent      *)
(* movements of the assign and restock pages) is computed from the rows of *)
(* their own branch alone; an admin's product stock is the sum of the      *)
(* stocks of the branches of the business.                                 *)
(* Violated in its second half: restock_product takes any branch id from   *)
(* an admin (C7), and a row written to another business's branch is in the *)
(* admin's total and in no branch of the business.                         *)
OwnBranchRows(user) ==
    SelectSeq(movements, LAMBDA m : m.branch_id = user.branch_id)

C5_BranchScopedReads ==
    /\ \A u \in users : u.role # "admin" =>
          /\ \A p \in ProductIdInputs :
                get_product_stock(u, p) = ProductStock(OwnBranchRows(u), u, p)
          /\ RecentMovements(movements, u, "ISSUE")
                = RecentMovements(OwnBranchRows(u), u, "ISSUE")
          /\ RecentMovements(movements, u, "IN")
                = RecentMovements(OwnBranchRows(u), u, "IN")
    /\ \A u \in users : u.role = "admin" =>
          \A p \in ProductIdInputs :
             get_product_stock(u, p) =
                SumOver({ b.id : b \in { x \in branches : x.business_id = u.business_id } },
                        [br \in BranchIdInputs |-> Balance(movements, u.business_id, br, p)])

(* C6: every stock value, movement list and onboarding status read by a    *)
(* user of a business is the same in the run and in the run that differs   *)
(* from it only by leaving out the requests of another business's actors.  *)
(* Violated: restock_product takes any existing branch id from an admin    *)
(* (C7), so whether another business has created a branch decides whether  *)
(* the admin's restock naming that branch is written.                      *)
C6_ReadsAgreeAcrossRuns ==
    \A b \in BusinessIds : \A u \in users : u.business_id # b =>
        /\ \A p \in ProductIdInputs :
              get_product_stock(u, p) = ProductStock(shadow[b].movements, u, p)
        /\ inventory_overview(u) = StockData(shadow[b].movements, u)
        /\ assign_page(u) = AssignPage(shadow[b].movements, u)
        /\ restock_page(u) = RestockPage(shadow[b].movements, u)
        /\ onboarding_status_result(events, u).response
              = onboarding_status_result(shadow[b].events, u).response

(* C7: every row's branch, product and staff (when set) belong to the      *)
(* row's business, and a restock or assign_stock whose branch, product or  *)
(* staff is another business's or does not exist writes nothing.           *)
(* Violated: restock_product does not look the admin's branch_id up.       *)
C7_ReferencesStayInTheBusiness ==
    /\ \A i \in 1 .. Len(movements) :
          LET m == movements[i] IN
          /\ OwnedBy(branches, m.branch_id, m.business_id)
          /\ OwnedBy(products, m.product_id, m.business_id)
          /\ m.staff_id # NULL => OwnedBy(staff, m.staff_id, m.business_id)
    /\ \A u \in users, p \in ProductIdInputs, q \in QuantityInputs, br \in BranchIdInputs :
          ( \/ ~OwnedBy(products, p, u.business_id)
            \/ ~OwnedBy(branches, RestockBranch(u, br), u.business_id) )
          => LET result == restock_result(movements, branches, u, p, q, br) IN
             /\ result.movements = movements
             /\ result.response.status # 303
    /\ \A u \in users, p \in ProductIdInputs, s \in StaffIdInputs, q \in QuantityInputs :
          ( \/ ~OwnedBy(products, p, u.business_id)
            \/ ~OwnedBy(staff, s, u.business_id) )
          => LET result == assign_stock_result(movements, u, p, s, q) IN
             /\ result.movements = movements
             /\ result.response.status # 303

(* C8: a step of the system never changes or removes a row of the ledger:  *)
(* the rows before the step are a prefix of the rows after it, and the     *)
(* step adds exactly one row when the restock or assign_stock it runs      *)
(* succeeds and none when it fails.                                        *)
C8_LedgerIsAppendOnly ==
    [][ /\ Len(movements') >= Len(movements)
        /\ SubSeq(movements', 1, Len(movements)) = movements
        /\ Len(movements') =
              Len(movements) + (IF response'.status = 303 THEN 1 ELSE 0)
      ]_vars

(* two equal restocks have succeeded one after the other, then an issue *)
C8_Witness ==
    /\ Len(movements) = 3
    /\ movements[1] = movements[2]
    /\ Received(movements[1])
    /\ Issued(movements[3])
    /\ response.status = 303

(* C9: a login with the right password by a user whose business's          *)
(* subscription is trial or active is denied when end_date < now, and the  *)
(* subscription it leaves stored is expired with is_active false; when     *)
(* end_date >= now it succeeds and leaves the subscriptions as they were.  *)
C9_ExpiryIsPersistedAtLogin ==
    \A u \in users : \A s \in SubscriptionOf(subscriptions, u.business_id) :
        (u.role # "superadmin" /\ s.status \in {"trial", "active"}) =>
            LET result == login_result(subscriptions, now, u.username, TRUE) IN
            IF s.end_date < now
            THEN /\ result.response.status # 302
                 /\ SubscriptionOf(result.subscriptions, u.business_id) =
                       { [s EXCEPT !.status = "expired", !.is_active = FALSE] }
            ELSE /\ result.response.status = 302
                 /\ result.subscriptions = subscriptions

(* a login was denied for an ended trial and the subscription is stored expired *)
C9_Witness ==
    /\ response = Resp(400, "Your trial has expired.")
    /\ \E s \in subscriptions :
          s.status = "expired" /\ ~s.is_active /\ s.end_date < now

(* C10: while a subscription is suspended, every login of a user of the    *)
(* business who is not the superadmin is denied, whether end_date is past  *)
(* or not, with the suspension's answer and not the expiry's, and leaves   *)
(* the subscription suspended.                                             *)
C10_SuspendedBlocksLogin ==
    \A u \in users : \A s \in SubscriptionOf(subscriptions, u.business_id) :
        (u.role # "superadmin" /\ s.status = "suspended") =>
            /\ \A ok \in BOOLEAN :
                  LET result == login_result(subscriptions, now, u.username, ok) IN
                  /\ result.response.status # 302
                  /\ result.subscriptions = subscriptions
            /\ login_result(subscriptions, now, u.username, TRUE).response
                  = Resp(400, "Your account is suspended.")

(* a login was denied for a suspension whose end_date is past *)
C10_Witness ==
    /\ response = Resp(400, "Your account is suspended.")
    /\ \E s \in subscriptions : s.status = "suspended" /\ s.end_date < now

(* C11: while a subscription is stored expired, every login of a user of   *)
(* the business who is not the superadmin is denied, the login right after *)
(* the one that stored the expiry included.                                *)
(* Violated: login_user has no check of status = "expired"; the expiry     *)
(* checks require trial or active, so the next login succeeds.             *)
C11_ExpiredBlocksLogin ==
    \A u \in users : \A s \in SubscriptionOf(subscriptions, u.business_id) :
        (u.role # "superadmin" /\ s.status = "expired") =>
            login_result(subscriptions, now, u.username, TRUE).response.status # 302

(* C12: for each (business, next_action), at most one onboarding_status    *)
(* call of a run answers show_activation_modal = true, calls of the same   *)
(* business that overlap included.                                         *)
(* Violated: the sentinel lookup and its insert are separate statements;   *)
(* two overlapping calls both find no sentinel and both answer true (the   *)
(* second insert raises IntegrityError, which is ignored).                 *)
C12_OnePromptPerStage ==
    \A k \in BusinessIds \X StageNames : prompts[k] <= 1

(* C13: onboarding_status calls made one at a time.  A call answering      *)
(* show_activation_modal = true leaves the stage's sentinel stored; the    *)
(* same call made again answers false for the same next_action; the first  *)
(* call of a stage (no prompt yet for this next_action) answers true and   *)
(* every later one false; a business with no products, orders or events    *)
(* gets all steps false, progress 0, next_action add_product and the modal *)
(* true, then false.                                                       *)
C13_PromptOncePerStage ==
    \A u \in users :
        LET b == u.business_id
            first == onboarding_status_result(events, u)
            again == onboarding_status_result(first.events, u)
            answer == first.response
        IN
        /\ answer.show_activation_modal =>
              <<b, "activation_modal_shown:" \o answer.next_action>> \in first.events
        /\ again.response.next_action = answer.next_action
        /\ ~again.response.show_activation_modal
        /\ \A n \in StageNames : prompts[<<b, n>>] <= 1
        /\ answer.next_action # "None" =>
              (answer.show_activation_modal <=> prompts[<<b, answer.next_action>>] = 0)
        /\ answer.next_action = "None" => ~answer.show_activation_modal
        /\ ( /\ \A p \in products : p.business_id # b
             /\ \A o \in orders : o.business_id # b
             /\ \A e \in events : e[1] # b )
           => /\ answer.steps = [add_product |-> FALSE, sell_product |-> FALSE,
                                 view_report |-> FALSE, install_app |-> FALSE]
              /\ answer.progress = 0
              /\ answer.next_action = "add_product"
              /\ answer.show_activation_modal

(* business 1 was prompted for add_product, then, its product added, for   *)
(* sell_product, and the call made again has answered false                *)
C13_Witness ==
    /\ prompts[<<1, "add_product">>] = 1
    /\ prompts[<<1, "sell_product">>] = 1
    /\ response.detail = "onboarding_status"
    /\ response.next_action = "sell_product"
    /\ ~response.show_activation_modal

EventInputs == {"install_app", "view_report", "activation_modal_shown:add_product"}

(* C14: recording a (business, event), any number of times and whatever    *)
(* other requests have committed in between, raises nothing to the caller, *)
(* leaves the pair stored once, a second recording changing nothing, and   *)
(* leaves the rows of every other pair as they were.                       *)
C14_RecordingIsIdempotent ==
    \A b \in BusinessIds, e \in EventInputs :
        LET once == RecordEvent(events, b, e)
            twice == RecordEvent(once.events, b, e)
        IN
        /\ once.raised = "none" /\ twice.raised = "none"
        /\ <<b, e>> \in once.events
        /\ twice.events = once.events
        /\ once.events \ {<<b, e>>} = events \ {<<b, e>>}
        /\ Cardinality(once.events) =
              Cardinality(events) + (IF <<b, e>> \in events THEN 0 ELSE 1)

(* two overlapping calls have both recorded the sentinel of add_product for *)
(* business 1: the second insert was a duplicate                            *)
C14_Witness ==
    /\ prompts[<<1, "add_product">>] = 2
    /\ <<1, "activation_modal_shown:add_product">> \in events

(* the steps as the stored facts give them *)
FactsOf(business_id) ==
    [add_product |-> \E p \in products : p.business_id = business_id,
     sell_product |-> \E o \in orders : o.business_id = business_id,
     view_report |-> \/ <<business_id, "view_report">> \in events
                     \/ \E o \in orders : o.business_id = business_id,
     install_app |-> <<business_id, "install_app">> \in events]

(* C15: onboarding_status answers add_product = a product exists,          *)
(* sell_product = an order exists, view_report = recorded or an order      *)
(* exists, install_app = recorded; progress = 25 times the number of true  *)
(* steps; next_action = the first false step in the order add_product,     *)
(* sell_product, view_report, install_app, "None" when all are true.       *)
C15_StepsProgressAndNextAction ==
    \A u \in users :
        LET answer == onboarding_status_result(events, u).response
            facts == FactsOf(u.business_id)
            unmet == { i \in 1 .. 4 : ~facts[StepNames[i]] }
        IN
        /\ answer.steps = facts
        /\ answer.progress = 25 * (4 - Cardinality(unmet))
        /\ answer.next_action =
              IF unmet = {} THEN "None"
              ELSE StepNames[CHOOSE i \in unmet : \A j \in unmet : i <= j]

(* a business with a product and an order and no view_report event was     *)
(* answered view_report true, progress 75 and next_action install_app      *)
C15_Witness ==
    /\ response.detail = "onboarding_status"
    /\ response.steps = [add_product |-> TRUE, sell_product |-> TRUE,
                         view_report |-> TRUE, install_app |-> FALSE]
    /\ response.progress = 75
    /\ response.next_action = "install_app"
    /\ \A e \in events : e[2] # "view_report"

(* C16: assign_stock succeeds only when staff_id names a Staff row of the  *)
(* actor's business and, the actor not being admin, of the actor's own     *)
(* branch; a request that passes the role and quantity checks with a       *)
(* staff_id that does not is refused with "Invalid staff", whatever its    *)
(* product, and no request with such a staff_id writes a movement.         *)
C16_IssueNeedsStaffInScope ==
    \A u \in users, p \in ProductIdInputs, s \in StaffIdInputs, q \in QuantityInputs :
        LET result == assign_stock_result(movements, u, p, s, q)
            resolves == \E row \in staff :
                            /\ row.id = s
                            /\ row.business_id = u.business_id
                            /\ (u.role # "admin" => row.branch_id = u.branch_id)
        IN
        /\ result.response.status = 303 => resolves
        /\ ~resolves => result.movements = movements
        /\ (~resolves /\ u.role \in {"admin", "storekeeper"} /\ q > 0)
              => result = Refused(movements, 400, "Invalid staff")

(* a request was refused for its staff_id while the ledger holds stock *)
C16_Witness ==
    /\ response = Resp(400, "Invalid staff")
    /\ movements # <<>>

(* C17: a manager's restock writes its movement to the manager's own       *)
(* branch and its outcome does not depend on the branch_id supplied; an    *)
(* admin's restock writes to the branch supplied, and with no branch_id    *)
(* fails, for a valid product and quantity with "Branch is required",      *)
(* writing nothing.                                                        *)
C17_RestockTargetBranch ==
    \A u \in users, p \in ProductIdInputs, q \in QuantityInputs, br \in BranchIdInputs :
        LET result == restock_result(movements, branches, u, p, q, br)
            written == result.movements[Len(result.movements)]
            valid == q > 0 /\ \E row \in products : row.id = p /\ row.business_id = u.business_id
        IN
        /\ u.role = "manager" =>
              /\ \A other \in BranchIdInputs :
                    restock_result(movements, branches, u, p, q, other) = result
              /\ valid => result.response.status = 303 /\ written.branch_id = u.branch_id
              /\ result.response.status = 303 =>
                    result.movements = Append(movements, written)
        /\ u.role = "admin" =>
              /\ br = NULL => result.movements = movements /\ result.response.status # 303
              /\ (br = NULL /\ valid) => result = Refused(movements, 400, "Branch is required")
              /\ result.response.status = 303 =>
                    /\ written.branch_id = br
                    /\ result.movements = Append(movements, written)
              /\ (valid /\ \E b \in branches : b.id = br) => result.response.status = 303

(* mgr1 has restocked into branch 1 and admin1 into branch 2 *)
C17_Witness ==
    /\ response = Resp(303, "Stock added successfully")
    /\ \E i, j \in 1 .. Len(movements) :
          /\ movements[i].created_by = 2 /\ movements[i].branch_id = 1
          /\ movements[j].created_by = 1 /\ movements[j].branch_id = 2

NonPositiveQuantities == {-2, -1, 0}

(* C18: restock and assign_stock with quantity <= 0 fail and leave the     *)
(* ledger as it was, for every actor, every other input and every stock    *)
(* level.                                                                  *)
C18_NonPositiveQuantityIsRefused ==
    \A u \in users, p \in ProductIdInputs, q \in NonPositiveQuantities :
        /\ \A s \in StaffIdInputs :
              LET result == assign_stock_result(movements, u, p, s, q) IN
              /\ result.movements = movements
              /\ result.response.status \in {400, 403}
              /\ u.role \in {"admin", "storekeeper"} =>
                    result.response = Resp(400, "Quantity must be greater than zero")
        /\ \A br \in BranchIdInputs :
              LET result == restock_result(movements, branches, u, p, q, br) IN
              /\ result.movements = movements
              /\ result.response.status \in {400, 403}
              /\ u.role \in {"admin", "manager"} =>
                    result.response = Resp(400, "Quantity must be greater than zero")

(* a request with quantity 0 was refused while the ledger holds stock      *)
C18_Witness ==
    /\ response = Resp(400, "Quantity must be greater than zero")
    /\ \E t \in Tuples : committed[t] > 0

Statuses == {"trial", "active", "expired", "suspended"}

(* the subscription of business_id after an operator request *)
RowAfter(result, business_id) ==
    CHOOSE s \in SubscriptionOf(result.subscriptions, business_id) : TRUE

(* C19: for a subscription in any status, activate by the operator leaves  *)
(* it active, is_active true, start_date = now, end_date = now + 30; renew *)
(* leaves it active, is_active true, end_date = the old end_date + 30 and  *)
(* start_date as it was.  Neither touches another business's row.          *)
C19_ActivateAndRenew ==
    \A old \in subscriptions, actor \in users :
        actor.role = "superadmin" =>
            LET activated == activate_result(subscriptions, now, actor, old.business_id)
                renewed == renew_result(subscriptions, actor, old.business_id)
                a == RowAfter(activated, old.business_id)
                r == RowAfter(renewed, old.business_id)
            IN
            /\ old.status \in Statuses
            /\ activated.response.status = 200 /\ renewed.response.status = 200
            /\ a.status = "active" /\ a.is_active
            /\ a.start_date = now /\ a.end_date = now + 30
            /\ r.status = "active" /\ r.is_active
            /\ r.end_date = old.end_date + 30 /\ r.start_date = old.start_date
            /\ activated.subscriptions \ {a} = subscriptions \ {old}
            /\ renewed.subscriptions \ {r} = subscriptions \ {old}

(* a subscription registered on day 0 was renewed: active, its start still *)
(* day 0, its trial's end moved from day 7 to day 37, after the trial's end *)
C19_Witness ==
    /\ response = Resp(200, "Subscription renewed +30 days")
    /\ \E s \in subscriptions :
          s.status = "active" /\ s.start_date = 0 /\ s.end_date = 37 /\ now > 7

(* C20: reactivate leaves a suspended subscription active and suspend      *)
(* leaves a subscription in any status suspended; both leave start_date    *)
(* and end_date as they were.                                              *)
C20_SuspendAndReactivate ==
    \A old \in subscriptions, actor \in users :
        actor.role = "superadmin" =>
            LET suspended == suspend_result(subscriptions, actor, old.business_id)
                reactivated == reactivate_result(subscriptions, actor, old.business_id)
                s == RowAfter(suspended, old.business_id)
                r == RowAfter(reactivated, old.business_id)
            IN
            /\ suspended.response.status = 200
            /\ s.status = "suspended"
            /\ s.start_date = old.start_date /\ s.end_date = old.end_date
            /\ old.status = "suspended" =>
                  /\ reactivated.response.status = 200
                  /\ r.status = "active"
                  /\ r.start_date = old.start_date /\ r.end_date = old.end_date

(* a subscription activated on day 1 was suspended and then reactivated:   *)
(* active again with the dates of its activation                           *)
C20_Witness ==
    /\ response = Resp(200, "Business reactivated")
    /\ now > 1
    /\ \E s \in subscriptions :
          s.status = "active" /\ s.start_date = 1 /\ s.end_date = 31

(* C21: a registration that succeeds adds, for the business it creates,    *)
(* one subscription with status trial, is_active true and end_date = the   *)
(* time of registration + 7 days, and touches no other subscription.       *)
C21_RegistrationStartsATrial ==
    \A x \in Registrants :
        LET result == register_result(business, users, subscriptions, now,
                                      x.username, x.email)
            created == result.business \ business
            added == result.subscriptions \ subscriptions
        IN
        result.response.status = 200 =>
            /\ Cardinality(created) = 1
            /\ subscriptions \subseteq result.subscriptions
            /\ Cardinality(added) = 1
            /\ \A b \in created, s \in added :
                  /\ s.business_id = b.id
                  /\ s.status = "trial"
                  /\ s.is_active
                  /\ s.end_date = now + 7
                  /\ SubscriptionOf(result.subscriptions, b.id) = {s}

(* a business registered on a day after day 0 holds its trial subscription *)
C21_Witness ==
    /\ response = Resp(200, "Account created successfully")
    /\ now > 0
    /\ \E s \in subscriptions :
          s.status = "trial" /\ s.is_active /\ s.start_date = now /\ s.end_date = now + 7

(* the subscriptions table with every row moved to business_id *)
HeldBy(subs, business_id) == { [s EXCEPT !.business_id = business_id] : s \in subs }

(* C22: a login of a superadmin with valid credentials is answered with    *)
(* the redirect to the admin panel and leaves the subscriptions table as   *)
(* it was, whatever the table holds (rows suspended, expired, trial or     *)
(* active past their end_date, no row at all) and whether or not the rows  *)
(* belong to the business the superadmin's user row names.                 *)
C22_SuperadminBypassesSubscription ==
    \A u \in users :
        u.role = "superadmin" =>
            \A subs \in {subscriptions, HeldBy(subscriptions, u.business_id), {}} :
                login_result(subs, now, u.username, TRUE) =
                    [response |-> Resp(302, "/superadmin/admin_panel"), subscriptions |-> subs]

(* the superadmin has logged in while the registered business is suspended *)
(* past its end_date                                                       *)
C22_Witness ==
    /\ response = Resp(302, "/superadmin/admin_panel")
    /\ \E s \in subscriptions : s.status = "suspended" /\ s.end_date < now

C25_AdminImpliesSubscription ==
    \A b \in business :
        (\E u \in users : u.business_id = b.id /\ u.role = "admin")
            => Cardinality(SubscriptionOf(subscriptions, b.id)) = 1

(* C23: every stored product whose price and buying_price are both set has *)
(* price >= buying_price.                                                  *)
(* Violated: the validator runs only when price is assigned and compares   *)
(* with the buying_price the row holds at that moment; add_product assigns *)
(* price before buying_price, update_stock assigns buying_price after      *)
(* price and unvalidated.                                                  *)
C23_PriceCoversBuyingPrice ==
    \A p \in products :
        (p.price # NoPrice /\ p.buying_price # NoPrice) => p.price >= p.buying_price

(* what get_product_stock answers, for every user and product id *)
StockView == [u \in users, p \in ProductIdInputs |-> get_product_stock(u, p)]

ProductAnswers ==
    {"Product added successfully", "Product updated successfully",
     "Access denied", "Product not found", "IntegrityError"}

(* C26: a get_product_stock answer changes only in a step that is a        *)
(* successful restock or assign_stock, which adds one movement; a step of  *)
(* add_product or update_stock, whatever it writes to the products table,  *)
(* leaves every get_product_stock answer and the ledger as they were.      *)
C26_LedgerIsTheOnlyStockSource ==
    [][ /\ StockView' # StockView =>
              /\ Len(movements') = Len(movements) + 1
              /\ response'.status = 303
              /\ response'.detail \in {"Stock added successfully",
                                        "Stock assigned successfully"}
        /\ (products' # products \/ response'.detail \in ProductAnswers) =>
              /\ StockView' = StockView
              /\ movements' = movements ]_vars

(* product 1 holds 5 in its quantity column while its stock, from the      *)
(* ledger, is 2                                                            *)
C26_Witness ==
    /\ response = Resp(200, "Product updated successfully")
    /\ \E p \in products : p.id = 1 /\ p.quantity = 5
    /\ get_product_stock(BranchReader(1, 1), 1) = 2

(* C27: what get_product_stock, inventory_overview and products_page show  *)
(* a manager is computed from the movements of the manager's branch alone. *)
(* Violated by products_page, which filters the ledger by business only    *)
(* and shows a manager the stock of every branch of the business.          *)
C27_ManagerReadsOwnBranchOnly ==
    \A u \in users : u.role = "manager" =>
        /\ \A p \in ProductIdInputs :
              get_product_stock(u, p) = ProductStock(OwnBranchRows(u), u, p)
        /\ inventory_overview(u) = StockData(OwnBranchRows(u), u)
        /\ products_page(u) = ProductData(OwnBranchRows(u), branches, u)

(* C28: an admin's assign_stock of q units to a staff member succeeds only *)
(* when the product's balance in that staff member's branch, where the     *)
(* movement is written, is at least q.                                     *)
(* Violated: for an admin the balance compared is the business's total     *)
(* (the bug of C1).                                                        *)
C28_AdminIssueChecksTheStaffBranch ==
    \A u \in users, p \in ProductIdInputs, s \in StaffIdInputs, q \in QuantityInputs :
        LET result == assign_stock_result(movements, u, p, s, q) IN
        (u.role = "admin" /\ result.response.status = 303) =>
            Balance(movements, u.business_id, StaffBranch(u, s), p) >= q

----------------------------------------------------------------------------
(* C29: the recent-activity list of assign_page (ISSUE) and of             *)
(* restock_page (IN) holds only movements of that type in the user's       *)
(* scope, at most RecentLimit of them and as many as there are up to that, *)
(* newest first, and no movement left out is newer than a listed one; the  *)
(* page shows exactly these rows, and a request for a page writes nothing. *)

RecentScope(user, type) ==
    { i \in 1 .. Len(movements) :
        /\ movements[i].business_id = user.business_id
        /\ movements[i].movement_type = type
        /\ (user.role # "admin" => movements[i].branch_id = user.branch_id) }

NewestFirst(user, type) ==
    LET ids == RecentIds(movements, user, type)
        listed == { ids[k] : k \in 1 .. Len(ids) }
    IN /\ Len(ids) <= RecentLimit
       /\ Len(ids) = RecentLimit \/ Len(ids) = Cardinality(RecentScope(user, type))
       /\ listed \subseteq RecentScope(user, type)
       /\ \A k \in 1 .. Len(ids) - 1 : ids[k] > ids[k + 1]
       /\ \A i \in RecentScope(user, type) \ listed : \A j \in listed : i < j

C29_RecentListsShowTheNewest ==
    /\ [](\A u \in users :
            /\ NewestFirst(u, "ISSUE")
            /\ NewestFirst(u, "IN")
            /\ u.role \in {"admin", "storekeeper"} =>
                  assign_page(u) = [k \in 1 .. Len(RecentIds(movements, u, "ISSUE")) |->
                                        movements[RecentIds(movements, u, "ISSUE")[k]]]
            /\ u.role \in {"admin", "manager"} =>
                  restock_page(u) = [k \in 1 .. Len(RecentIds(movements, u, "IN")) |->
                                        movements[RecentIds(movements, u, "IN")[k]]])
    /\ [][response'.detail \in {"assign_page", "restock_page"} =>
              UNCHANGED <<tenantTables, ledgerTables, onboardingTables,
                          subscriptionTables, reqs>>]_vars

C29_Witness ==
    \E u \in users :
        /\ u.role = "manager"
        /\ Cardinality(RecentScope(u, "IN")) > RecentLimit
        /\ \E i \in 1 .. Len(movements) :
              /\ movements[i].movement_type = "IN"
              /\ movements[i].branch_id # u.branch_id
              /\ i > RecentIds(movements, u, "IN")[RecentLimit]
        /\ response.status = 200
        /\ response.detail = "restock_page"
        /\ response.movements = restock_page(u)
        /\ Len(response.movements) = RecentLimit

----------------------------------------------------------------------------
(* C24: after push_reminder a push subscription of the business is gone    *)
(* from the table exactly when its delivery failed with status 404 or 410; *)
(* rows delivered to, rows failed otherwise and rows of other businesses   *)
(* remain; sent + failed is the number of rows attempted, sent and failed  *)
(* count the deliveries and the failures, deleted counts the removed rows  *)
(* and is at most failed; a refused request removes nothing.               *)

C24_GoneSubscriptionsAreDeleted ==
    \A a \in users, b \in BusinessIds, payload_ok \in BOOLEAN, vapid_set \in BOOLEAN :
        \A outcome \in OutcomesFor(push_subscriptions, b) :
            LET result == push_reminder_result(push_subscriptions, a, b,
                                               payload_ok, vapid_set, outcome)
                after == result.push_subscriptions
                attempted == { s \in push_subscriptions : s.business_id = b }
                processed == result.response.detail = "Reminder processed"
                gone(s) == /\ outcome[s.endpoint].raised
                           /\ outcome[s.endpoint].status_code \in {404, 410}
            IN /\ after \subseteq push_subscriptions
               /\ push_subscriptions \ after \subseteq attempted
               /\ \A s \in attempted : s \notin after <=> (processed /\ gone(s))
               /\ processed =>
                     /\ result.response.sent + result.response.failed
                            = Cardinality(attempted)
                     /\ result.response.sent
                            = Cardinality({ s \in attempted : ~outcome[s.endpoint].raised })
                     /\ result.response.deleted
                            = Cardinality(push_subscriptions \ after)
                     /\ result.response.deleted <= result.response.failed
               /\ processed <=>
                     /\ a.role = "superadmin"
                     /\ payload_ok /\ vapid_set
                     /\ attempted # {}

C24_Witness ==
    /\ response.detail = "Reminder processed"
    /\ response.sent = 1
    /\ response.failed = 2
    /\ response.deleted = 1
    /\ \E b \in BusinessIds : Cardinality(SubscriptionsOf(push_subscriptions, b)) = 2

(* C31: after a renewal by the operator, from any state of the             *)
(* subscription, a login of a user of that business with the right         *)
(* password is admitted and the subscription stays active.                 *)
(* Violated: renew adds 30 days to the old end_date without looking at the *)
(* clock; a subscription that ended more than 30 days ago is active with   *)
(* an end_date still in the past, and the login flips it to expired.       *)
C31_LoginAfterRenewIsAdmitted ==
    \A old \in subscriptions, actor \in users, u \in users :
        (actor.role = "superadmin" /\ u.business_id = old.business_id) =>
            LET renewed == renew_result(subscriptions, actor, old.business_id)
                login == login_result(renewed.subscriptions, now, u.username, TRUE)
            IN
            renewed.response.status = 200 =>
                /\ login.response.status = 302
                /\ \A s \in SubscriptionOf(login.subscriptions, old.business_id) :
                      s.status = "active"

(* C32: a login leaves every subscription's start_date and end_date as     *)
(* they were and adds or removes no subscription; the only status it       *)
(* changes is trial or active to expired; with a wrong password or an      *)
(* unknown username it changes no subscription and writes no user.         *)
C32_LoginOnlyExpires ==
    \A n \in UsernameInputs, ok \in BOOLEAN :
        LET result == login_result(subscriptions, now, n, ok)
            after == result.subscriptions
        IN
        /\ Cardinality(after) = Cardinality(subscriptions)
        /\ \A old \in subscriptions :
              \E new \in after :
                  /\ new.business_id = old.business_id
                  /\ new.start_date = old.start_date
                  /\ new.end_date = old.end_date
                  /\ \/ new = old
                     \/ /\ old.status \in {"trial", "active"}
                        /\ new.status = "expired"
        /\ (~ok \/ \A u \in users : u.username # n) =>
              /\ after = subscriptions
              /\ login_writes(subscriptions, now, n, ok) = {}
              /\ result.response.status = 400

(* a login found an active subscription past its end and expired it; one   *)
(* with a wrong password at that moment would have changed nothing         *)
C32_Witness ==
    /\ response = Resp(400, "Your subscription has expired.")
    /\ \E s \in subscriptions :
          /\ s.status = "expired"
          /\ s.end_date < now
          /\ s.start_date > 0
          /\ \E u \in users : u.business_id = s.business_id

(* C33: every stock movement is an IN or an ISSUE; an ISSUE has a negative *)
(* quantity, names a staff member and carries that staff member's branch;  *)
(* an IN has a positive quantity and names no staff member.                *)
C33_MovementRowsAreWellFormed ==
    \A i \in 1 .. Len(movements) :
        LET m == movements[i] IN
        /\ m.movement_type \in {"IN", "ISSUE"}
        /\ m.movement_type = "ISSUE" =>
              /\ m.quantity < 0
              /\ m.staff_id # NULL
              /\ \E s \in staff : s.id = m.staff_id
              /\ \A s \in staff : s.id = m.staff_id => s.branch_id = m.branch_id
        /\ m.movement_type = "IN" =>
              /\ m.quantity > 0
              /\ m.staff_id = NULL

(* the admin, who has no branch, issued to the staff member of branch 2    *)
(* after a restock: the ledger holds an IN and an ISSUE carrying branch 2  *)
C33_Witness ==
    /\ response = Resp(303, "Stock assigned successfully")
    /\ \E i, j \in 1 .. Len(movements) :
          /\ movements[i].movement_type = "IN"
          /\ movements[j].movement_type = "ISSUE"
          /\ movements[j].staff_id = 2
          /\ movements[j].branch_id = 2
          /\ \E u \in users : u.id = movements[j].created_by /\ u.branch_id = NULL

(* C34: an assign_stock that passes the role, quantity, staff and product  *)
(* checks and asks for exactly the current stock (the stock the same user  *)
(* reads) is accepted and leaves that stock at 0; it is refused for lack   *)
(* of stock exactly when its quantity is greater than the current stock.   *)
C34_ExactStockIsAccepted ==
    \A u \in users, p \in ProductIdInputs, s \in StaffIdInputs, q \in QuantityInputs :
        AssignRefusal(u, p, s, q).detail = "valid" =>
            LET stock == get_product_stock(u, p)
                result == assign_stock_result(movements, u, p, s, q)
            IN
            /\ q = stock =>
                  /\ result.response.status = 303
                  /\ Len(result.movements) = Len(movements) + 1
                  /\ ProductStock(result.movements, u, p) = 0
            /\ result.response.detail = "Not enough stock" <=> q > stock
            /\ result.response.status # 303 => result.movements = movements

(* the storekeeper issued the two units the branch held: its stock is 0 *)
C34_Witness ==
    /\ Len(movements) = 2
    /\ Received(movements[1]) /\ movements[1].quantity = 2
    /\ Issued(movements[2]) /\ movements[2].quantity = -2
    /\ movements[1].branch_id = movements[2].branch_id
    /\ \E u \in users :
          /\ u.id = movements[2].created_by
          /\ u.role = "storekeeper"
          /\ get_product_stock(u, movements[2].product_id) = 0
    /\ response = Resp(303, "Stock assigned successfully")

(* C35: every IN movement was created by an admin or a manager and every   *)
(* ISSUE movement by an admin or a storekeeper; a restock by a storekeeper *)
(* and an assign_stock by a manager are refused with 403 and write         *)
(* nothing, whatever their inputs.                                         *)
C35_LedgerWritesAreRoleGated ==
    /\ \A i \in 1 .. Len(movements) :
          \E u \in users :
              /\ u.id = movements[i].created_by
              /\ movements[i].movement_type = "IN" => u.role \in {"admin", "manager"}
              /\ movements[i].movement_type = "ISSUE" => u.role \in {"admin", "storekeeper"}
    /\ \A u \in users, p \in ProductIdInputs, q \in QuantityInputs :
          /\ u.role = "storekeeper" =>
                \A br \in BranchIdInputs :
                    LET result == restock_result(movements, branches, u, p, q, br) IN
                    result.response.status = 403 /\ result.movements = movements
          /\ u.role = "manager" =>
                \A s \in StaffIdInputs :
                    LET result == assign_stock_result(movements, u, p, s, q) IN
                    result.response.status = 403 /\ result.movements = movements

(* the manager restocked the branch and a request was then refused for    *)
(* its role: the manager's issue or the storekeeper's restock              *)
C35_Witness ==
    /\ \E i \in 1 .. Len(movements) :
          /\ movements[i].movement_type = "IN"
          /\ movements[i].quantity = 2
          /\ \E u \in users : u.id = movements[i].created_by /\ u.role = "manager"
    /\ response = Resp(403, "Not authorized")

(* C36: no onboarding_status answer has next_action = view_report: when    *)
(* add_product and sell_product are true view_report is true too, and the  *)
(* next action is then install_app or none; no prompt is ever counted for  *)
(* the stage view_report.                                                  *)
C36_ViewReportIsNeverNext ==
    \A u \in users :
        LET answer == onboarding_status_result(events, u).response IN
        answer.status = 200 =>
            /\ answer.next_action # "view_report"
            /\ answer.steps.sell_product => answer.steps.view_report
            /\ (answer.steps.add_product /\ answer.steps.sell_product) =>
                  /\ answer.next_action \in {"install_app", "None"}
                  /\ answer.next_action = "None" <=> answer.steps.install_app
            /\ prompts[<<u.business_id, "view_report">>] = 0
            /\ <<u.business_id, "activation_modal_shown:view_report">> \notin events

(* a business with a product and an order, no view_report event and the    *)
(* app installed was answered that nothing is left to do                   *)
C36_Witness ==
    /\ response.detail = "onboarding_status"
    /\ response.steps.add_product /\ response.steps.sell_product
    /\ response.steps.view_report
    /\ response.next_action = "None"
    /\ \A e \in events : e[2] # "view_report"

(* C37: in every onboarding_status answer next_action is none exactly when *)
(* progress is 100, exactly when the four steps are true; the answer then  *)
(* carries show_activation_modal = false and the call stores no event.     *)
C37_DoneMeansNothingToShow ==
    \A u \in users :
        LET result == onboarding_status_result(events, u)
            answer == result.response
            all == \A i \in 1 .. 4 : answer.steps[StepNames[i]]
        IN
        answer.status = 200 =>
            /\ answer.next_action = "None" <=> answer.progress = 100
            /\ answer.progress = 100 <=> all
            /\ all =>
                  /\ ~answer.show_activation_modal
                  /\ result.events = events

(* a business whose four steps are met, the report viewed, was answered    *)
(* progress 100 without a prompt, after having been prompted to install    *)
C37_Witness ==
    /\ response.detail = "onboarding_status"
    /\ response.progress = 100
    /\ response.next_action = "None"
    /\ ~response.show_activation_modal
    /\ \E b \in BusinessIds :
          /\ <<b, "view_report">> \in events
          /\ <<b, "install_app">> \in events
          /\ prompts[<<b, "install_app">>] = 1

(* C38: at most one user with role superadmin exists, create_superadmin    *)
(* requests whose existence checks and inserts interleave included.        *)
(* Violated: the existence query and the insert are separate statements    *)
(* with no lock, and only the username is unique; two requests with        *)
(* different usernames both find no superadmin and both insert.            *)
C38_AtMostOneSuperadmin ==
    /\ (\E u \in users : u.role = "superadmin") =>
          \A n \in OperatorNames \cup MemberNames :
              LET result == create_superadmin_result(users, n) IN
              result.response.status = 400 /\ result.users = users
    /\ Cardinality({ u \in users : u.role = "superadmin" }) <= 1

====
